---- MODULE Spec2Model ----
(***************************************************************************)
(* Model of spotify2qobuz-web: the match decision engine                   *)
(* (src/src/matcher_v2.py, src/src/qobuz_client.py) and the streaming      *)
(* reconciliation driver (src/src/async_sync.py, src/web/main.py).         *)
(*                                                                         *)
(* Text similarity (rapidfuzz) is a pure function of two strings; a        *)
(* catalogue item carries the values that function yields against the      *)
(* source track (title_score, artist_score, artist_direct, album_score).   *)
(* All scores a MatchResult or a suggestion holds are kept in TENTHS of a  *)
(* point, so that 0.5/0.5 and 0.7/0.3 weightings stay exact integers.      *)
(***************************************************************************)
EXTENDS Integers, Sequences, FiniteSets, TLC

VARIABLES
    \* ---- match decision engine (TrackMatcherV2) ----
    spotify_track,      \* the source track being resolved
    stage,              \* position of match_track_with_suggestions
    consumed,           \* items of the current search response already examined
    scored_candidates,  \* primary-stage candidates with their score breakdown
    result,             \* the MatchResult returned (NoResult = None)
    suggestions,        \* the suggestion list returned
    queries,            \* search requests issued so far, in order
    failed,             \* the stage whose search request failed in the latest step ("none": no failure)
    raised,             \* TRUE iff an exception escaped match_track_with_suggestions
    examined_isrc       \* track_isrc of the item search_by_isrc examined last in
                        \* the running query ("": none)

VARIABLES
    \* ---- reconciliation driver (AsyncSyncService, run_sync_task) ----
    profile,            \* which source library / target catalogue the run works on
    sync_type,          \* the driver of the current task: "favorites" (the
                        \* streaming driver of favourites and albums) or "playlists"
    prefetched,         \* whether the favourites pre-fetch request succeeded
    ledger,             \* storage.synced_tracks: source ids marked synced
    qobuz_favorites,    \* the target's favourites (target ids)
    pc,                 \* "idle", "stream" (inside the for loop), "returned"
    runs,               \* sync tasks started so far
    dry_run,
    already_synced,     \* the set run_sync_task loaded from the ledger
    qobuz_isrc_map,     \* pre-fetched exact key -> target id, as a set of pairs
    existing_favorites,
    cancelled,          \* AsyncSyncService._cancelled
    track_index,        \* items pulled from the stream and put into a batch
    batch,              \* source ids waiting to be matched
    pending_favorites,  \* queued write-backs: [spotify_id, qobuz_id]
    report,
    calls,              \* write-back calls of this run: the entries each carried
    matcher_calls,      \* source ids handed to the matching engine in this run
    fast_path_checks,   \* source ids whose exact key was looked up in the map
    handled,            \* source ids whose result was processed
    last_run,           \* how the previous task ended, and what it left
    progress_installed, \* ProgressCallback.callback is set
    on_track_synced,    \* the driver was given a per-item synced callback
    progress,           \* the ProgressCallback object of the run
    notified            \* source ids the synced callback was called with

driverVars == <<profile, sync_type, prefetched, ledger, qobuz_favorites, pc, runs, dry_run,
                already_synced, qobuz_isrc_map, existing_favorites, cancelled,
                track_index, batch, pending_favorites, report, calls,
                matcher_calls, fast_path_checks, handled, last_run,
                progress_installed, on_track_synced, progress, notified>>

\* what a run is constructed with / what its hooks have seen
hookCfg == <<progress_installed, on_track_synced>>
hookState == <<progress, notified>>

matcherVars == <<spotify_track, stage, consumed, scored_candidates, result,
                 suggestions, queries, failed, raised, examined_isrc>>

VARIABLES
    \* ---- playlist drivers (SyncService, AsyncSyncService) and the
    \* ---- command-line favourites driver (FavoriteSyncService) ----
    pl_pc,              \* "idle", "loaded", "authed", "syncing", "done",
                        \* "setup_failed", "aborted"
    pl_cfg,             \* the invocation: driver, flags, the target it found
    pl_index,           \* source playlists handled so far
    pl_runs,            \* invocations so far
    qobuz_playlists,    \* the target's playlists; a playlist's id is its index
    pl_calls,           \* write calls of this invocation, in order
    pl_report,
    pl_reads            \* read / match calls made by this invocation

playlistVars == <<pl_pc, pl_cfg, pl_index, pl_runs, qobuz_playlists, pl_calls,
                  pl_report, pl_reads>>

VARIABLES
    \* ---- storage (table synced_tracks) ----
    synced_tracks,      \* the rows of the table
    last_op             \* the storage call made last

storageVars == <<synced_tracks, last_op>>

VARIABLES
    \* ---- artist strings (_extract_featured_artists) ----
    artist_string,      \* the argument s of the call made last
    extracted           \* what the call returned

artistVars == <<artist_string, extracted>>

VARIABLES
    \* ---- threads of a streaming sync ----
    control,            \* the control thread: its position, the batches, the
                        \* pending write-back list by batch of origin
    rate_limiter,       \* the AdaptiveRateLimiter all workers share
    workers             \* the worker threads: position and local values

threadVars == <<control, rate_limiter, workers>>

VARIABLES
    \* ---- one call of QobuzClient._make_request ----
    request             \* its position, attempt, delay, what it slept and sent

requestVars == <<request>>

VARIABLES
    \* ---- tables of the web application ----
    unmatched_tracks,   \* the rows of table unmatched_tracks
    sync_tasks          \* the rows of table sync_tasks and the running threads

webVars == <<unmatched_tracks, sync_tasks>>

vars == <<matcherVars, driverVars, playlistVars, storageVars, artistVars,
          threadVars, requestVars, webVars>>

----------------------------------------------------------------------------
(* Bounds of the model *)

\* items a single search response may carry
MaxCands == 2
\* length of the stream of saved tracks / albums
NumItems == 60
\* sync tasks started one after the other on the same storage
MaxRuns == 2
NumPlaylists == 2

----------------------------------------------------------------------------
(* Program constants *)

MIN_COMBINED_SCORE == 78
MIN_ARTIST_SCORE_FOR_SUGGESTION == 50
SUGGESTION_THRESHOLD == 40
ALT_SCORE_THRESHOLD == 65
TITLE_ONLY_TITLE_SCORE == 92
TITLE_ONLY_ARTIST_SCORE == 40
TITLE_ONLY_DURATION_MS == 3000
SUGGESTION_SCAN == 10
SUGGESTION_CAP == 5
ISRC_SCORE == 100
BATCH_SIZE == 50
FAVORITE_BATCH == 25
PAGE_LIMIT == 50

----------------------------------------------------------------------------
(* Input domains *)

\* "" stands for a missing ISRC (None or empty: both falsy in the code)
TrackIsrcs == {"", "usrc1"}
ItemIsrcs == {"", "USRC1", "usrc1", "USRC2"}

\* one source duration per bucket of _get_duration_tolerance, and 239999
\* next to the 240000 border
TrackDurations == {100000, 239999, 240000, 480000}

\* item['duration'] of the backend, in seconds
ItemSeconds == {103, 245, 510}

\* <<title similarity, direct artist similarity, best artist similarity over
\* all artist variants>> of an item against the source track
Similarities == {<<100, 40, 40>>, <<100, 30, 50>>, <<30, 30, 50>>}
AlbumScores == {90}

\* <<the track names an album, its cleaned title differs from its title, its
\* artist names featured artists>>: which fallback strategies apply; every
\* succession of two strategies occurs
StrategyFlags ==
    {<<FALSE, FALSE, FALSE>>, <<FALSE, FALSE, TRUE>>, <<FALSE, TRUE, FALSE>>,
     <<TRUE, FALSE, FALSE>>, <<TRUE, FALSE, TRUE>>, <<TRUE, TRUE, TRUE>>}

Tracks ==
    { [isrc |-> i, duration |-> d, has_album |-> f[1], compilation |-> FALSE,
       clean_differs |-> f[2], featured |-> f[3]] :
         i \in TrackIsrcs, d \in TrackDurations, f \in StrategyFlags }

\* what track/search returns: one raw item of data['tracks']['items']
Items ==
    { [id |-> 1000 * sim[1] + 100 * sim[2] + al + s, title_score |-> sim[1],
       artist_direct |-> sim[2], artist_score |-> sim[3], album_score |-> al,
       compilation |-> FALSE, seconds |-> s] :
         sim \in Similarities, al \in AlbumScores, s \in ItemSeconds }

----------------------------------------------------------------------------
(* Pure helpers of the engine *)

Abs(x) == IF x < 0 THEN -x ELSE x
Min(a, b) == IF a < b THEN a ELSE b
Max(a, b) == IF a > b THEN a ELSE b

\* str.upper() on the ISRC strings of the model
Upper(s) ==
    CASE s = "usrc1" -> "USRC1"
      [] s = "usrc2" -> "USRC2"
      [] OTHER -> s

\* track_isrc and track_isrc.upper() == isrc.upper()
IsrcEquals_exact(track_isrc, isrc) == track_isrc # "" /\ track_isrc = isrc
\* the first item of the response taken without looking at its ISRC
IsrcEquals_first(track_isrc, isrc) == TRUE
IsrcEquals(track_isrc, isrc) == track_isrc # "" /\ Upper(track_isrc) = Upper(isrc)

\* the dict _search_candidates / search_by_isrc build from a raw item
Candidate(item) ==
    [id |-> item.id, title_score |-> item.title_score,
     artist_direct |-> item.artist_direct, artist_score |-> item.artist_score,
     album_score |-> item.album_score, compilation |-> item.compilation,
     duration |-> item.seconds * 1000]

NoTrack == [id |-> 0]
NoResult == [qobuz_track |-> NoTrack, match_type |-> "None", score |-> 0]
MatchResult(track, type, score) ==
    [qobuz_track |-> track, match_type |-> type, score |-> score]

\* the fixed class constant DURATION_TOLERANCE_MS in place of the buckets
Tolerance_fixed(duration_ms) == 10000
_get_duration_tolerance(duration_ms) ==
    IF duration_ms < 120000 THEN 3000
    ELSE IF duration_ms < 240000 THEN 5000
    ELSE IF duration_ms < 480000 THEN 10000
    ELSE 30000

\* the combined score without min(100, .) and max(0, .)
_score_candidate_noclamp(track, c) ==
    LET combined == c.title_score * 5 + c.artist_score * 5
    IN  IF track.has_album
        THEN IF c.album_score > 85 THEN combined + 80
             ELSE IF c.album_score > 70 THEN combined + 40
             ELSE IF c.compilation /\ ~track.compilation
                  THEN combined - 50
                  ELSE combined
        ELSE combined

\* combined score of _score_candidate_detailed, in tenths
_score_candidate(track, c) ==
    LET combined == c.title_score * 5 + c.artist_score * 5
    IN  IF track.has_album
        THEN IF c.album_score > 85 THEN Min(1000, combined + 80)
             ELSE IF c.album_score > 70 THEN Min(1000, combined + 40)
             ELSE IF c.compilation /\ ~track.compilation
                  THEN Max(0, combined - 50)
                  ELSE combined
        ELSE combined

DurationDiff(track, c) == Abs(track.duration - c.duration)

\* one entry of scored_candidates
Scored(track, c) ==
    [candidate |-> c, score |-> _score_candidate(track, c),
     title_score |-> c.title_score * 10, artist_score |-> c.artist_score * 10,
     duration_diff |-> DurationDiff(track, c)]

\* list.sort(key=score, reverse=True): stable, ties keep backend order
\* (an entry is inserted in front of the later entries of equal score)
RECURSIVE InsertByScore(_, _)
InsertByScore(e, s) ==
    IF s = <<>> THEN <<e>>
    ELSE IF Head(s).score > e.score THEN <<Head(s)>> \o InsertByScore(e, Tail(s))
    ELSE <<e>> \o s

RECURSIVE SortByScore(_)
SortByScore(s) ==
    IF s = <<>> THEN <<>>
    ELSE InsertByScore(Head(s), SortByScore(Tail(s)))

\* the suggestion dict built from one entry of scored_candidates
Suggestion(sc) ==
    [qobuz_id |-> sc.candidate.id, score |-> sc.score,
     title_score |-> sc.title_score, artist_score |-> sc.artist_score,
     duration_diff_sec |-> (sc.duration_diff + 50) \div 100]

\* the same loop without the artist floor
RECURSIVE CollectSuggestions_nofloor(_, _)
CollectSuggestions_nofloor(s, acc) ==
    IF s = <<>> \/ Len(acc) >= SUGGESTION_CAP THEN acc
    ELSE IF Head(s).score >= SUGGESTION_THRESHOLD * 10
         THEN CollectSuggestions_nofloor(Tail(s), Append(acc, Suggestion(Head(s))))
         ELSE CollectSuggestions_nofloor(Tail(s), acc)

\* the loop over scored_candidates[:10] that fills suggestions, with its
\* break at five entries
RECURSIVE CollectSuggestions(_, _)
CollectSuggestions(s, acc) ==
    IF s = <<>> \/ Len(acc) >= SUGGESTION_CAP THEN acc
    ELSE IF /\ Head(s).score >= SUGGESTION_THRESHOLD * 10
            /\ Head(s).artist_score >= MIN_ARTIST_SCORE_FOR_SUGGESTION * 10
         THEN CollectSuggestions(Tail(s), Append(acc, Suggestion(Head(s))))
         ELSE CollectSuggestions(Tail(s), acc)

BuildSuggestions(scored) ==
    CollectSuggestions(SubSeq(scored, 1, Min(SUGGESTION_SCAN, Len(scored))), <<>>)

\* try/except of _search_candidates: what the caller sees of a request
SearchOutcome_reraise(ok) == IF ok THEN "items" ELSE "raise"
_search_candidates(ok) == IF ok THEN "items" ELSE "empty"

\* try/except of QobuzClient.search_by_isrc
search_by_isrc(ok) == IF ok THEN "items" ELSE "none"

\* the stage that follows, by the guards of _match_alternative
AfterClean(t) == IF t.featured THEN "alt_primary" ELSE "alt_title"
AfterAlbum(t) == IF t.clean_differs THEN "alt_clean" ELSE AfterClean(t)
AfterPrimary(t) == IF t.has_album THEN "alt_album" ELSE AfterAlbum(t)
AfterStage(s, t) ==
    CASE s = "isrc_key" -> "isrc_hint"
      [] s = "isrc_hint" -> "primary"
      [] s = "primary" -> AfterPrimary(t)
      [] s = "alt_album" -> AfterAlbum(t)
      [] s = "alt_clean" -> AfterClean(t)
      [] s = "alt_primary" -> "alt_title"
      [] OTHER -> "done"

AltMatchType(s) ==
    CASE s = "alt_album" -> "fuzzy_album"
      [] s = "alt_clean" -> "fuzzy_clean"
      [] OTHER -> "fuzzy_primary"

IsrcStages == {"isrc_key", "isrc_hint"}
AltStages == {"alt_album", "alt_clean", "alt_primary"}

----------------------------------------------------------------------------
(* match_track_with_suggestions, one search response item at a time *)

\* the driver before its first run
NewReport ==
    [completed_at |-> FALSE, playlists_synced |-> 0, tracks_matched |-> 0,
     tracks_not_matched |-> 0,
     tracks_skipped |-> 0, tracks_already_in_qobuz |-> 0, isrc_matches |-> 0,
     fuzzy_matches |-> 0, missing_tracks |-> <<>>, synced_tracks |-> <<>>,
     errors |-> <<>>]

\* ProgressCallback.__init__; delivered: calls of the installed callback
NewProgress ==
    [total_tracks |-> 0, current_track_index |-> 0, tracks_matched |-> 0,
     tracks_not_matched |-> 0, isrc_matches |-> 0, fuzzy_matches |-> 0,
     recent_missing |-> <<>>, delivered |-> 0]

NoRun ==
    [how |-> "none", sync_type |-> "favorites", dry_run |-> FALSE, synced |-> {},
     flushed |-> {}]

NewPlReport ==
    [playlists_synced |-> 0, tracks_matched |-> 0, tracks_not_matched |-> 0,
     isrc_matches |-> 0, fuzzy_matches |-> 0, already_favorited |-> 0,
     failed |-> 0, missing_tracks |-> <<>>, errors |-> <<>>,
     finalized |-> FALSE]

NoInvocation ==
    [driver |-> "none", dry_run |-> FALSE, update_existing |-> TRUE,
     only_update |-> TRUE, playlists_at_start |-> <<>>,
     favorites_at_start |-> {}, outcome |-> <<>>]

\* no playlist driver has run; target: the playlists the target holds
PlaylistFresh(target) ==
    /\ pl_pc = "idle"
    /\ pl_cfg = [NoInvocation EXCEPT !.playlists_at_start = target]
    /\ pl_index = 0
    /\ pl_runs = 0
    /\ qobuz_playlists = target
    /\ pl_calls = <<>>
    /\ pl_report = NewPlReport
    /\ pl_reads = {}

NoOp == [op |-> "none", spotify_id |-> 0, sync_type |-> "favorites"]

\* Storage.init_db on a new database file
StorageFresh ==
    /\ synced_tracks = {}
    /\ last_op = NoOp

\* no call of _extract_featured_artists was made
NoExtract == [primary |-> <<>>, featured |-> <<>>, called |-> FALSE]

ArtistFresh ==
    /\ artist_string = <<>>
    /\ extracted = NoExtract

\* no request is being made
RequestFresh == request = [pc |-> "none"]

\* empty tables
WebFresh ==
    /\ unmatched_tracks = {}
    /\ sync_tasks = <<>>

\* no streaming sync has any thread running
ThreadFresh ==
    /\ control = [pc |-> "none"]
    /\ rate_limiter = [delay |-> 0]
    /\ workers = <<>>

DriverFresh ==
    /\ pc = "idle"
    /\ sync_type = "favorites"
    /\ prefetched = FALSE
    /\ runs = 0
    /\ dry_run = FALSE
    /\ already_synced = {}
    /\ qobuz_isrc_map = {}
    /\ existing_favorites = {}
    /\ cancelled = FALSE
    /\ track_index = 0
    /\ batch = <<>>
    /\ pending_favorites = <<>>
    /\ report = NewReport
    /\ calls = <<>>
    /\ matcher_calls = {}
    /\ fast_path_checks = {}
    /\ handled = {}
    /\ last_run = NoRun
    /\ progress_installed = FALSE
    /\ on_track_synced = FALSE
    /\ progress = NewProgress
    /\ notified = <<>>

MatcherInit ==
    /\ spotify_track \in Tracks
    /\ stage = IF spotify_track.isrc # "" THEN "isrc_key" ELSE "primary"
    /\ queries = <<stage>>
    /\ consumed = 0
    /\ scored_candidates = <<>>
    /\ result = NoResult
    /\ suggestions = <<>>
    /\ failed = "none"
    /\ raised = FALSE
    /\ examined_isrc = ""
    /\ profile = "all_new"
    /\ ledger = {}
    /\ qobuz_favorites = {}
    /\ DriverFresh
    /\ PlaylistFresh(<<>>)
    /\ StorageFresh
    /\ ArtistFresh
    /\ RequestFresh
    /\ WebFresh
    /\ ThreadFresh

\* the engine issues the query of stage s, or returns when none is left
Enter(s) ==
    /\ stage' = s
    /\ consumed' = 0
    /\ IF s = "done"
       THEN /\ suggestions' = BuildSuggestions(scored_candidates)
            /\ queries' = queries
       ELSE /\ suggestions' = suggestions
            /\ queries' = Append(queries, s)

\* a return that hands back the suggestions next to the MatchResult
Return_withsuggestions(r) ==
    /\ result' = r
    /\ suggestions' = BuildSuggestions(scored_candidates)
    /\ stage' = "done"
    /\ consumed' = 0
    /\ queries' = queries

\* a return after which the engine goes on to the title-only query
Return_nostop(r) ==
    /\ result' = r
    /\ suggestions' = <<>>
    /\ stage' = "alt_title"
    /\ consumed' = 0
    /\ queries' = Append(queries, "alt_title")

\* return result, []
Return(r) ==
    /\ result' = r
    /\ suggestions' = <<>>
    /\ stage' = "done"
    /\ consumed' = 0
    /\ queries' = queries

Escape ==
    /\ raised' = TRUE
    /\ stage' = "raised"
    /\ UNCHANGED <<consumed, queries, suggestions, result>>

\* a track/search request of search_by_isrc fails: its except returns None
IsrcFail ==
    /\ UNCHANGED <<driverVars, playlistVars, storageVars, artistVars, threadVars,
                   requestVars, webVars>>
    /\ stage \in IsrcStages /\ consumed = 0
    /\ failed' = stage
    /\ IF search_by_isrc(FALSE) = "raise"
       THEN Escape
       ELSE Enter("primary") /\ UNCHANGED <<result, raised>>
    /\ examined_isrc' = ""
    /\ UNCHANGED <<spotify_track, scored_candidates>>

\* search_by_isrc examines the next item of the response
IsrcItem(item, item_isrc) ==
    /\ UNCHANGED <<driverVars, playlistVars, storageVars, artistVars, threadVars,
                   requestVars, webVars>>
    /\ stage \in IsrcStages /\ consumed < MaxCands
    /\ examined_isrc' = item_isrc
    /\ IF IsrcEquals(item_isrc, spotify_track.isrc)
       THEN Return(MatchResult(Candidate(item), "isrc", ISRC_SCORE * 10))
       ELSE /\ consumed' = consumed + 1
            /\ UNCHANGED <<stage, queries, suggestions, result>>
    /\ failed' = "none"
    /\ UNCHANGED <<spotify_track, scored_candidates, raised>>

\* the response holds no further item
IsrcEnd ==
    /\ UNCHANGED <<driverVars, playlistVars, storageVars, artistVars, threadVars,
                   requestVars, webVars>>
    /\ stage \in IsrcStages
    /\ Enter(AfterStage(stage, spotify_track))
    /\ failed' = "none"
    /\ examined_isrc' = ""
    /\ UNCHANGED <<spotify_track, scored_candidates, result, raised>>

\* the primary decision on the complete, sorted candidate list
PrimaryDecide(scored) ==
    LET sorted == SortByScore(scored)
        duration_tolerance == _get_duration_tolerance(spotify_track.duration)
    IN  /\ scored_candidates' = sorted
        /\ IF /\ sorted # <<>>
              /\ sorted[1].score >= MIN_COMBINED_SCORE * 10
              /\ sorted[1].duration_diff <= duration_tolerance
           THEN /\ result' = MatchResult(sorted[1].candidate, "fuzzy", sorted[1].score)
                /\ stage' = "done"
                /\ consumed' = 0
                /\ UNCHANGED <<queries, suggestions>>
           ELSE /\ result' = result
                /\ stage' = AfterPrimary(spotify_track)
                /\ consumed' = 0
                /\ queries' = Append(queries, AfterPrimary(spotify_track))
                /\ suggestions' = suggestions

PrimaryFail ==
    /\ UNCHANGED <<driverVars, playlistVars, storageVars, artistVars, threadVars,
                   requestVars, webVars>>
    /\ stage = "primary" /\ consumed = 0
    /\ failed' = stage
    /\ IF _search_candidates(FALSE) = "raise"
       THEN Escape /\ UNCHANGED scored_candidates
       ELSE PrimaryDecide(<<>>) /\ UNCHANGED raised
    /\ UNCHANGED <<spotify_track, examined_isrc>>

PrimaryItem(item) ==
    /\ UNCHANGED <<driverVars, playlistVars, storageVars, artistVars, threadVars,
                   requestVars, webVars>>
    /\ stage = "primary" /\ consumed < MaxCands
    /\ scored_candidates' =
           Append(scored_candidates, Scored(spotify_track, Candidate(item)))
    /\ consumed' = consumed + 1
    /\ failed' = "none"
    /\ UNCHANGED <<spotify_track, stage, result, suggestions, queries, raised, examined_isrc>>

PrimaryEnd ==
    /\ UNCHANGED <<driverVars, playlistVars, storageVars, artistVars, threadVars,
                   requestVars, webVars>>
    /\ stage = "primary"
    /\ PrimaryDecide(scored_candidates)
    /\ failed' = "none"
    /\ UNCHANGED <<spotify_track, raised, examined_isrc>>

AltFail ==
    /\ UNCHANGED <<driverVars, playlistVars, storageVars, artistVars, threadVars,
                   requestVars, webVars>>
    /\ stage \in AltStages \cup {"alt_title"} /\ consumed = 0
    /\ failed' = stage
    /\ IF _search_candidates(FALSE) = "raise"
       THEN Escape
       ELSE Enter(AfterStage(stage, spotify_track)) /\ UNCHANGED <<result, raised>>
    /\ UNCHANGED <<spotify_track, scored_candidates, examined_isrc>>

\* strategies 1-3 of _match_alternative examine the next candidate
AltItem(item) ==
    /\ UNCHANGED <<driverVars, playlistVars, storageVars, artistVars, threadVars,
                   requestVars, webVars>>
    /\ stage \in AltStages /\ consumed < MaxCands
    /\ LET c == Candidate(item)
           score == _score_candidate(spotify_track, c)
           duration_diff == DurationDiff(spotify_track, c)
           duration_tolerance == _get_duration_tolerance(spotify_track.duration)
       IN  IF score >= ALT_SCORE_THRESHOLD * 10 /\ duration_diff <= duration_tolerance
           THEN Return(MatchResult(c, AltMatchType(stage), score))
           ELSE /\ consumed' = consumed + 1
                /\ UNCHANGED <<stage, queries, suggestions, result>>
    /\ failed' = "none"
    /\ UNCHANGED <<spotify_track, scored_candidates, raised, examined_isrc>>

\* strategy 4 without its artist floor
TitleItem_lax(item) ==
    /\ UNCHANGED <<driverVars, playlistVars, storageVars, artistVars, threadVars,
                   requestVars, webVars>>
    /\ stage = "alt_title" /\ consumed < MaxCands
    /\ LET c == Candidate(item)
       IN  IF c.title_score >= TITLE_ONLY_TITLE_SCORE
              /\ DurationDiff(spotify_track, c) <= TITLE_ONLY_DURATION_MS
           THEN Return(MatchResult(c, "fuzzy_title",
                                   c.title_score * 7 + c.artist_direct * 3))
           ELSE /\ consumed' = consumed + 1
                /\ UNCHANGED <<stage, queries, suggestions, result>>
    /\ failed' = "none"
    /\ UNCHANGED <<spotify_track, scored_candidates, raised, examined_isrc>>

\* strategy 4 (title only) examines the next candidate
TitleItem(item) ==
    /\ UNCHANGED <<driverVars, playlistVars, storageVars, artistVars, threadVars,
                   requestVars, webVars>>
    /\ stage = "alt_title" /\ consumed < MaxCands
    /\ LET c == Candidate(item)
           title_score == c.title_score
           artist_score == c.artist_direct
           duration_diff == DurationDiff(spotify_track, c)
       IN  IF /\ title_score >= TITLE_ONLY_TITLE_SCORE
              /\ artist_score >= TITLE_ONLY_ARTIST_SCORE
              /\ duration_diff <= TITLE_ONLY_DURATION_MS
           THEN Return(MatchResult(c, "fuzzy_title",
                                   title_score * 7 + artist_score * 3))
           ELSE /\ consumed' = consumed + 1
                /\ UNCHANGED <<stage, queries, suggestions, result>>
    /\ failed' = "none"
    /\ UNCHANGED <<spotify_track, scored_candidates, raised, examined_isrc>>

\* the response of an alternative query holds no further candidate
AltEnd ==
    /\ UNCHANGED <<driverVars, playlistVars, storageVars, artistVars, threadVars,
                   requestVars, webVars>>
    /\ stage \in AltStages \cup {"alt_title"}
    /\ Enter(AfterStage(stage, spotify_track))
    /\ failed' = "none"
    /\ UNCHANGED <<spotify_track, scored_candidates, result, raised, examined_isrc>>

MatcherNext ==
    \/ IsrcFail
    \/ \E item \in Items, i \in ItemIsrcs : IsrcItem(item, i)
    \/ IsrcEnd
    \/ PrimaryFail
    \/ \E item \in Items : PrimaryItem(item)
    \/ PrimaryEnd
    \/ AltFail
    \/ \E item \in Items : AltItem(item)
    \/ \E item \in Items : TitleItem(item)
    \/ AltEnd

SpecMatcher == MatcherInit /\ [][MatcherNext]_vars

----------------------------------------------------------------------------
(* The engine over candidates at the ends of the score range: the          *)
(* similarities 0 and 100, an album match above each bonus threshold, a    *)
(* compilation album, a duration inside and one outside the tolerance.     *)

ScoreTracks ==
    { [isrc |-> i, duration |-> 100000, has_album |-> a[1], compilation |-> a[2],
       clean_differs |-> FALSE, featured |-> a[1]] :
         i \in TrackIsrcs, a \in {<<FALSE, FALSE>>, <<TRUE, FALSE>>, <<TRUE, TRUE>>} }

ScoreItem(id, sim, album_score, compilation, seconds) ==
    [id |-> id, title_score |-> sim[1], artist_direct |-> sim[2],
     artist_score |-> sim[3], album_score |-> album_score,
     compilation |-> compilation, seconds |-> seconds]

ScoreItems ==
    { ScoreItem(1, <<100, 100, 100>>, 90, FALSE, 103),
      ScoreItem(2, <<100, 100, 100>>, 75, FALSE, 245),
      ScoreItem(3, <<0, 0, 0>>, 0, TRUE, 103),
      ScoreItem(4, <<92, 40, 40>>, 0, TRUE, 103),
      ScoreItem(5, <<100, 30, 50>>, 90, FALSE, 245) }

ScoreInit ==
    /\ spotify_track \in ScoreTracks
    /\ stage = IF spotify_track.isrc # "" THEN "isrc_key" ELSE "primary"
    /\ queries = <<stage>>
    /\ consumed = 0
    /\ scored_candidates = <<>>
    /\ result = NoResult
    /\ suggestions = <<>>
    /\ failed = "none"
    /\ raised = FALSE
    /\ examined_isrc = ""
    /\ profile = "all_new"
    /\ ledger = {}
    /\ qobuz_favorites = {}
    /\ DriverFresh
    /\ PlaylistFresh(<<>>)
    /\ StorageFresh
    /\ ArtistFresh
    /\ RequestFresh
    /\ WebFresh
    /\ ThreadFresh

ScoreNext ==
    \/ IsrcFail
    \/ \E item \in ScoreItems, i \in ItemIsrcs : IsrcItem(item, i)
    \/ IsrcEnd
    \/ PrimaryFail
    \/ \E item \in ScoreItems : PrimaryItem(item)
    \/ PrimaryEnd
    \/ AltFail
    \/ \E item \in ScoreItems : AltItem(item)
    \/ \E item \in ScoreItems : TitleItem(item)
    \/ AltEnd

SpecScore == ScoreInit /\ [][ScoreNext]_vars

----------------------------------------------------------------------------
(* The suggestion stage over a primary response of any size the search     *)
(* can return. The track names no album, its cleaned title is its title    *)
(* and it has no featured artist: after the primary stage only the         *)
(* title-only query is left. The response holds candidates of three kinds, *)
(* none of which the primary stage accepts:                                *)
(*   near-high   similarities <<100, 30, 50>>: combined 75, passes floors  *)
(*   wrong       similarities <<100, 40, 40>>: combined 70, artist < 50    *)
(*   near-low    similarities <<30, 30, 50>>:  combined 40, passes floors  *)

\* 'limit': 15 of the track/search request
SEARCH_LIMIT == 15

RankTrack ==
    [isrc |-> "", duration |-> 100000, has_album |-> FALSE, compilation |-> FALSE,
     clean_differs |-> FALSE, featured |-> FALSE]

RankItem(id, sim) ==
    [id |-> id, title_score |-> sim[1], artist_direct |-> sim[2],
     artist_score |-> sim[3], album_score |-> 90, compilation |-> FALSE,
     seconds |-> 245]

\* data['tracks']['items']: low near-misses first, then wrong, then high
\* near-misses, so that the order of the response is not the order of the
\* scores
Response(high, wrong, low) ==
    [i \in 1..(low + wrong + high) |->
        RankItem(i, IF i <= low THEN <<30, 30, 50>>
                    ELSE IF i <= low + wrong THEN <<100, 40, 40>>
                    ELSE <<100, 30, 50>>)]

\* the primary stage on a whole response: every candidate is scored, the
\* list is sorted and the best entry is tested
PrimaryResponse(items) ==
    /\ UNCHANGED <<driverVars, playlistVars, storageVars, artistVars, threadVars,
                   requestVars, webVars>>
    /\ stage = "primary" /\ consumed = 0
    /\ PrimaryDecide([i \in 1..Len(items) |->
                         Scored(spotify_track, Candidate(items[i]))])
    /\ failed' = "none"
    /\ UNCHANGED <<spotify_track, raised, examined_isrc>>

RankInit ==
    /\ spotify_track = RankTrack
    /\ stage = "primary"
    /\ queries = <<stage>>
    /\ consumed = 0
    /\ scored_candidates = <<>>
    /\ result = NoResult
    /\ suggestions = <<>>
    /\ failed = "none"
    /\ raised = FALSE
    /\ examined_isrc = ""
    /\ profile = "all_new"
    /\ ledger = {}
    /\ qobuz_favorites = {}
    /\ DriverFresh
    /\ PlaylistFresh(<<>>)
    /\ StorageFresh
    /\ ArtistFresh
    /\ RequestFresh
    /\ WebFresh
    /\ ThreadFresh

RankNext ==
    \/ \E high \in 0..SEARCH_LIMIT, wrong \in 0..SEARCH_LIMIT, low \in 0..SEARCH_LIMIT :
          /\ high + wrong + low <= SEARCH_LIMIT
          /\ PrimaryResponse(Response(high, wrong, low))
    \/ AltFail
    \/ AltEnd

SpecRank == RankInit /\ [][RankNext]_vars

----------------------------------------------------------------------------
(* The fallback strategies of _match_alternative on whole responses *)

\* longest response of a fallback query
MaxResponse == 2

\* data['tracks']['items'] of one fallback query, in the backend's order
Responses == UNION {[1..n -> Items] : n \in 0..MaxResponse}

\* the test of the loops of strategies 1-3
AltPasses(track, c) ==
    /\ _score_candidate(track, c) >= ALT_SCORE_THRESHOLD * 10
    /\ DurationDiff(track, c) <= _get_duration_tolerance(track.duration)

\* position of the candidate at which the loop returns; 0: it runs to its end
FirstPassing(track, items) ==
    LET passing == {k \in 1..Len(items) : AltPasses(track, Candidate(items[k]))}
    IN  IF passing = {} THEN 0
        ELSE CHOOSE k \in passing : \A l \in passing : k <= l

\* strategies 1-3 on a whole response: the candidates are examined in the
\* order of the response and the first that passes is returned
AltResponse(items) ==
    /\ UNCHANGED <<driverVars, playlistVars, storageVars, artistVars, threadVars,
                   requestVars, webVars>>
    /\ stage \in AltStages /\ consumed = 0
    /\ LET k == FirstPassing(spotify_track, items)
       IN  IF k # 0
           THEN Return(MatchResult(Candidate(items[k]), AltMatchType(stage),
                                   _score_candidate(spotify_track, Candidate(items[k]))))
           ELSE Enter(AfterStage(stage, spotify_track)) /\ UNCHANGED result
    /\ failed' = "none"
    /\ UNCHANGED <<spotify_track, scored_candidates, raised, examined_isrc>>

AltInit ==
    /\ spotify_track \in {t \in Tracks : t.isrc = ""}
    /\ stage = "primary"
    /\ queries = <<stage>>
    /\ consumed = 0
    /\ scored_candidates = <<>>
    /\ result = NoResult
    /\ suggestions = <<>>
    /\ failed = "none"
    /\ raised = FALSE
    /\ examined_isrc = ""
    /\ profile = "all_new"
    /\ ledger = {}
    /\ qobuz_favorites = {}
    /\ DriverFresh
    /\ PlaylistFresh(<<>>)
    /\ StorageFresh
    /\ ArtistFresh
    /\ RequestFresh
    /\ WebFresh
    /\ ThreadFresh

AltNext ==
    \/ PrimaryFail
    \/ \E items \in Responses : PrimaryResponse(items)
    \/ AltFail
    \/ \E items \in Responses : AltResponse(items)
    \/ \E item \in Items : TitleItem(item)
    \/ AltEnd

SpecAlt == AltInit /\ [][AltNext]_vars

----------------------------------------------------------------------------
(* Artist strings. A string is a sequence of tokens written with one space *)
(* between them, a comma being attached to the token before it:            *)
(* <<"Simon", "&", "Garfunkel">> is 'Simon & Garfunkel' and                *)
(* <<"Drake", ",", "Simon">> is 'Drake, Simon'. The strings carry no       *)
(* bracket, so that the parenthetical pattern of _extract_featured_artists *)
(* never matches them.                                                     *)

\* tokens an artist string is made of
MaxTokens == 5

ArtistTokens == {"Simon", "Garfunkel", "Drake", "&", ",", "and", "feat.", "FT"}

\* str.lower() on a token
LowerToken(t) ==
    CASE t = "Simon" -> "simon"
      [] t = "Garfunkel" -> "garfunkel"
      [] t = "Drake" -> "drake"
      [] t = "FT" -> "ft"
      [] OTHER -> t

\* s.lower().strip()
LowerString(s) == [i \in 1..Len(s) |-> LowerToken(s[i])]

\* the entries of KNOWN_DUOS that share a token with the strings above
KNOWN_DUOS ==
    {<<"simon", "&", "garfunkel">>, <<"simon", "and", "garfunkel">>,
     <<"crosby", ",", "stills", "&", "nash">>}

\* a in b, for two strings
IsSubstring(a, b) ==
    \E i \in 0..(Len(b) - Len(a)) : \A j \in 1..Len(a) : b[i + j] = a[j]

\* feat\.?|ft\.?|featuring with re.IGNORECASE, on a token
IsFeatKeyword(t) == LowerToken(t) \in {"feat", "feat.", "ft", "ft.", "featuring"}

\* the positions where ^(.+?)\s+(?:feat\.?|ft\.?|featuring)\s+(.+)$ can
\* match: a keyword with text before it and white space then text after it
FeatPositions(s) ==
    {k \in 2..(Len(s) - 1) : IsFeatKeyword(s[k]) /\ s[k + 1] # ","}

\* re.split(r'\s*[,&]\s*|\s+and\s+', others) without its empty parts: an
\* 'and' separates only with white space on both sides, which a separator
\* before it has consumed and a comma after it does not leave
RECURSIVE SplitFeatured(_, _, _, _, _)
SplitFeatured(others, i, current, after_separator, acc) ==
    IF i > Len(others)
    THEN IF current = <<>> THEN acc ELSE Append(acc, current)
    ELSE LET t == others[i]
             separator ==
                 \/ t \in {",", "&"}
                 \/ /\ LowerToken(t) = "and"
                    /\ 1 < i /\ i < Len(others)
                    /\ ~after_separator
                    /\ others[i + 1] # ","
         IN  IF separator
             THEN SplitFeatured(others, i + 1, <<>>, TRUE,
                                IF current = <<>> THEN acc ELSE Append(acc, current))
             ELSE SplitFeatured(others, i + 1, Append(current, t), FALSE, acc)

\* a mutant: no test against KNOWN_DUOS
_extract_featured_artists_noduo(s) ==
    IF FeatPositions(s) # {}
    THEN LET k == CHOOSE k \in FeatPositions(s) : \A m \in FeatPositions(s) : k <= m
         IN  [primary |-> SubSeq(s, 1, k - 1),
              featured |-> SplitFeatured(SubSeq(s, k + 1, Len(s)), 1, <<>>, FALSE, <<>>)]
    ELSE [primary |-> s, featured |-> <<>>]

_extract_featured_artists(s) ==
    IF s = <<>> THEN [primary |-> s, featured |-> <<>>]
    ELSE IF \E duo \in KNOWN_DUOS :
               IsSubstring(duo, LowerString(s)) \/ IsSubstring(LowerString(s), duo)
    THEN [primary |-> s, featured |-> <<>>]
    ELSE IF FeatPositions(s) # {}
    THEN LET k == CHOOSE k \in FeatPositions(s) : \A m \in FeatPositions(s) : k <= m
         IN  [primary |-> SubSeq(s, 1, k - 1),
              featured |-> SplitFeatured(SubSeq(s, k + 1, Len(s)), 1, <<>>, FALSE, <<>>)]
    ELSE [primary |-> s, featured |-> <<>>]

\* one call of _extract_featured_artists on the string drawn
ExtractFeaturedArtists ==
    /\ ~extracted.called
    /\ extracted' = [primary |-> _extract_featured_artists(artist_string).primary,
                     featured |-> _extract_featured_artists(artist_string).featured,
                     called |-> TRUE]
    /\ UNCHANGED <<artist_string, matcherVars, driverVars, playlistVars,
                   storageVars, threadVars,
                   requestVars, webVars>>

----------------------------------------------------------------------------
(* The source library and the target catalogue the driver works on.        *)
(* Item i of the stream has source id i; the catalogue entry it resolves   *)
(* to has target id QobuzId(i). What the matching engine returns for an    *)
(* item is fixed by the item's kind (the catalogue does not change):       *)
(*   "isrc"     exact key, resolved by key, target not yet a favourite     *)
(*   "fuzzy"    no exact key, resolved by text, target not yet a favourite *)
(*   "present"  exact key, target already a favourite listed with its key  *)
(*   "in_favs"  no exact key, resolved by text to a listed favourite       *)
(*   "twin"     no exact key, resolved by text to the previous item's      *)
(*              target                                                     *)
(*   "none"     no stage accepts                                           *)
(*   "error"    a malformed record: processing it raises                   *)
(***************************************************************************)

Profiles == {"all_new", "mixed", "malformed"}

\* the positions of the stream at which the user may cancel
CancelPoints == {0, 20, 50, 55}

Pattern(p) ==
    CASE p = "all_new" -> <<"isrc">>
      [] p = "mixed" -> <<"isrc", "present", "fuzzy", "twin", "in_favs", "none">>
      [] OTHER -> <<"none", "none", "none", "none", "fuzzy">>

ItemKind(p, i) ==
    IF p = "malformed" /\ i = BATCH_SIZE + 1 THEN "error"
    ELSE Pattern(p)[((i - 1) % Len(Pattern(p))) + 1]

QobuzId(i) == 100 + i
\* the exact key (ISRC / UPC) of source item i; 0: the item has none
SourceKey(p, i) == IF ItemKind(p, i) \in {"isrc", "present"} THEN i ELSE 0
\* the exact key the favourites listing reports for target QobuzId(i)
TargetKey(p, i) == IF ItemKind(p, i) \in {"isrc", "present", "in_favs"} THEN i ELSE 0
\* the target id the engine resolves item i to
TargetOf(p, i) == IF ItemKind(p, i) = "twin" THEN QobuzId(i - 1) ELSE QobuzId(i)

InitialFavorites(p) ==
    {QobuzId(i) : i \in {j \in 1..NumItems : ItemKind(p, j) \in {"present", "in_favs"}}}

\* get_favorite_tracks_with_isrc / get_favorite_albums_with_upc: the map of
\* the favourites that carry a key; {} when the request fails
get_favorites_with_key(p, favs, ok) ==
    IF ok
    THEN {<<TargetKey(p, i), QobuzId(i)>> :
             i \in {j \in 1..NumItems : QobuzId(j) \in favs /\ TargetKey(p, j) # 0}}
    ELSE {}

MapKeys(m) == {e[1] : e \in m}
MapValues(m) == {e[2] : e \in m}
MapGet(m, k) == (CHOOSE e \in m : e[1] = k)[2]

\* what the worker gets from TrackMatcher.match_track_with_suggestions
\* (the search sequence of match_album for albums)
MatchOutcome(p, i) ==
    CASE ItemKind(p, i) = "error" -> [status |-> "raise", qobuz_id |-> 0, match_type |-> "None"]
      [] ItemKind(p, i) = "none" -> [status |-> "not_matched", qobuz_id |-> 0, match_type |-> "None"]
      [] ItemKind(p, i) \in {"isrc", "present"} ->
             [status |-> "matched", qobuz_id |-> TargetOf(p, i), match_type |-> "isrc"]
      [] OTHER -> [status |-> "matched", qobuz_id |-> TargetOf(p, i), match_type |-> "fuzzy"]

\* the worker's result for a ledger item: nothing looked up, nothing searched
SkippedResult(i) ==
    [status |-> "skipped", spotify_id |-> i, qobuz_id |-> 0, match_type |-> "None",
     looked_up |-> FALSE, searched |-> FALSE]

process_track_noskip(p, synced, map, i) ==
    IF SourceKey(p, i) # 0 /\ SourceKey(p, i) \in MapKeys(map)
    THEN [status |-> "already_in_qobuz", spotify_id |-> i,
          qobuz_id |-> MapGet(map, SourceKey(p, i)), match_type |-> "None",
          looked_up |-> TRUE, searched |-> FALSE]
    ELSE [spotify_id |-> i, looked_up |-> SourceKey(p, i) # 0, searched |-> TRUE]
             @@ MatchOutcome(p, i)

\* a worker that does not consult the pre-fetched map
process_track_nofastpath(p, synced, map, i) ==
    IF i \in synced
    THEN SkippedResult(i)
    ELSE [spotify_id |-> i, looked_up |-> FALSE, searched |-> TRUE]
             @@ MatchOutcome(p, i)

\* process_track / match_album: runs in the worker pool. looked_up: the
\* exact key was looked up in the pre-fetched map; searched: the item was
\* handed to the matching engine
process_track(p, synced, map, i) ==
    IF i \in synced
    THEN SkippedResult(i)
    ELSE IF SourceKey(p, i) # 0 /\ SourceKey(p, i) \in MapKeys(map)
    THEN [status |-> "already_in_qobuz", spotify_id |-> i,
          qobuz_id |-> MapGet(map, SourceKey(p, i)), match_type |-> "None",
          looked_up |-> TRUE, searched |-> FALSE]
    ELSE [spotify_id |-> i, looked_up |-> SourceKey(p, i) # 0, searched |-> TRUE]
             @@ MatchOutcome(p, i)

\* the part of the run's state the loop body works on; exc: an exception
\* is on its way to the except clause
Local ==
    [report |-> report, existing_favorites |-> existing_favorites,
     pending_favorites |-> pending_favorites, calls |-> calls,
     qobuz_favorites |-> qobuz_favorites, handled |-> handled,
     matcher_calls |-> matcher_calls, fast_path_checks |-> fast_path_checks,
     progress |-> progress, callback |-> progress_installed,
     notify |-> on_track_synced, notified |-> notified,
     exc |-> FALSE]

Inc(rep, field) == [rep EXCEPT ![field] = @ + 1]

MAX_RECENT_MISSING == 20

\* an update whose delivery to the installed callback also counts the item
\* as matched
progress_update_counting(st, kwargs) ==
    LET p == kwargs @@ st.progress
    IN  IF st.callback
        THEN [st EXCEPT !.progress = [p EXCEPT !.delivered = @ + 1],
                        !.report = Inc(@, "tracks_matched")]
        ELSE [st EXCEPT !.progress = p]

\* ProgressCallback.update(**kwargs): the attributes are set, then the
\* callback, if one is installed, is called with to_dict()
progress_update(st, kwargs) ==
    LET p == kwargs @@ st.progress
    IN  [st EXCEPT !.progress = IF st.callback THEN [p EXCEPT !.delivered = @ + 1]
                                ELSE p]

\* _process_single_result without the membership test: every confirmed match
\* is queued
process_result_requeue(st, r) ==
    LET entry == [spotify_id |-> r.spotify_id, qobuz_id |-> r.qobuz_id]
    IN  IF r.status = "matched"
        THEN [st EXCEPT !.handled = @ \cup {r.spotify_id},
                        !.report = Inc(@, "tracks_matched"),
                        !.report.synced_tracks = Append(@, entry),
                        !.pending_favorites = Append(@, entry)]
        ELSE [st EXCEPT !.handled = @ \cup {r.spotify_id}]

\* ProgressCallback.add_missing_track
add_missing_track(st, id) ==
    LET q == Append(st.progress.recent_missing, id)
    IN  [st EXCEPT !.progress.recent_missing =
            IF Len(q) > MAX_RECENT_MISSING THEN Tail(q) ELSE q]

process_result_countall(st, r) ==
    [st EXCEPT !.handled = @ \cup {r.spotify_id},
               !.report = Inc(Inc(@, "tracks_skipped"), "tracks_matched")]

\* _process_single_result / _process_album_result
_process_single_result(st, r) ==
    LET done == [st EXCEPT !.handled = @ \cup {r.spotify_id}]
    IN  IF r.status = "skipped"
        THEN [done EXCEPT !.report = Inc(@, "tracks_skipped")]
        ELSE IF r.status = "already_in_qobuz"
        THEN LET counted == [done EXCEPT !.report =
                     Inc(Inc(Inc(@, "tracks_already_in_qobuz"), "tracks_matched"),
                         "isrc_matches")]
             IN  progress_update(counted,
                     [tracks_matched |-> counted.report.tracks_matched,
                      isrc_matches |-> counted.report.isrc_matches])
        ELSE IF r.status = "matched"
        THEN LET kind == IF r.match_type = "isrc" THEN "isrc_matches"
                         ELSE "fuzzy_matches"
                 m1 == [done EXCEPT !.report = Inc(@, "tracks_matched")]
                 m2 == progress_update(m1, [tracks_matched |-> m1.report.tracks_matched])
                 m3 == [m2 EXCEPT !.report = Inc(@, kind)]
                 m4 == progress_update(m3,
                           IF kind = "isrc_matches"
                           THEN [isrc_matches |-> m3.report.isrc_matches]
                           ELSE [fuzzy_matches |-> m3.report.fuzzy_matches])
                 entry == [spotify_id |-> r.spotify_id, qobuz_id |-> r.qobuz_id]
                 new == r.qobuz_id \notin m4.existing_favorites
             IN  [m4 EXCEPT
                    !.report.synced_tracks = Append(@, entry),
                    !.pending_favorites = IF new THEN Append(@, entry) ELSE @,
                    !.existing_favorites = IF new THEN @ \cup {r.qobuz_id} ELSE @]
        ELSE LET n1 == [done EXCEPT !.report = Inc(@, "tracks_not_matched")]
                 n2 == progress_update(n1,
                           [tracks_not_matched |-> n1.report.tracks_not_matched])
                 n3 == [n2 EXCEPT !.report.missing_tracks = Append(@, r.spotify_id)]
             IN  progress_update(add_missing_track(n3, r.spotify_id), <<>>)

\* for ... in results: self._process_single_result(...), for the results
\* lo..hi in their order (split in halves to keep the evaluation shallow)
RECURSIVE ProcessResults(_, _, _, _)
ProcessResults(st, results, lo, hi) ==
    IF lo > hi THEN st
    ELSE IF lo = hi THEN _process_single_result(st, results[lo])
    ELSE LET mid == (lo + hi) \div 2
             left == ProcessResults(st, results, lo, mid)
         IN  IF left.exc THEN left ELSE ProcessResults(left, results, mid + 1, hi)

\* futures = [executor.submit(...)]; results = [f.result() ...]; the loop
\* over the results. Every worker runs; a worker's exception leaves
\* f.result() before any result of the batch is processed
MatchBatch(st, b) ==
    LET results == [k \in 1..Len(b) |->
                       process_track(profile, already_synced, qobuz_isrc_map, b[k])]
        ran == [st EXCEPT
                  !.matcher_calls = @ \cup {b[k] : k \in {j \in 1..Len(b) : results[j].searched}},
                  !.fast_path_checks = @ \cup {b[k] : k \in {j \in 1..Len(b) : results[j].looked_up}}]
    IN  IF \E k \in 1..Len(b) : results[k].status = "raise"
        THEN [ran EXCEPT !.exc = TRUE]
        ELSE ProcessResults(ran, results, 1, Len(b))

SeqRange(q) == {q[k] : k \in 1..Len(q)}
\* [tid for _, tid in pending_favorites]: the ids a write-back call carries
Ids(pending) == [k \in 1..Len(pending) |-> pending[k].qobuz_id]

\* a flush that does not look at the dry-run flag
flush_favorites_nodry(st, ok) ==
    IF st.pending_favorites # <<>>
    THEN [st EXCEPT !.calls = Append(@, st.pending_favorites),
                    !.qobuz_favorites = @ \cup SeqRange(Ids(st.pending_favorites)),
                    !.pending_favorites = <<>>]
    ELSE st

\* flush_favorites / flush_albums; ok: whether add_favorite_tracks_batch /
\* add_favorite_albums_batch succeeded
flush_favorites(st, ok) ==
    IF st.pending_favorites # <<>> /\ ~dry_run
    THEN [st EXCEPT !.calls = Append(@, st.pending_favorites),
                    !.qobuz_favorites =
                        IF ok THEN @ \cup SeqRange(Ids(st.pending_favorites)) ELSE @,
                    !.notified =
                        IF st.notify
                        THEN @ \o [k \in 1..Len(st.pending_favorites) |->
                                      st.pending_favorites[k].spotify_id]
                        ELSE @,
                    !.pending_favorites = <<>>]
    ELSE st

OnException_reraise(st, msg) ==
    [st EXCEPT !.report = [@ EXCEPT !.errors = Append(@, msg)]]

\* the except clause of the driver: the error is noted, the report completed
OnException(st, msg) ==
    [st EXCEPT !.report = [@ EXCEPT !.errors = Append(@, msg), !.completed_at = TRUE]]

\* after the for loop: the remaining batch, the last flush, completed_at
AfterLoop(st, b, ok) ==
    LET matched == IF b # <<>> THEN MatchBatch(st, b) ELSE st
        shown == IF b # <<>>
                 THEN progress_update(matched, [current_track_index |-> b[Len(b)]])
                 ELSE matched
    IN  IF matched.exc
        THEN OnException(matched, "item error")
        ELSE [flush_favorites(shown, ok) EXCEPT !.report.completed_at = TRUE]

\* a full batch inside the loop
FullBatch(st, b, ok) ==
    LET matched == MatchBatch(st, b)
    IN  IF matched.exc
        THEN OnException(matched, "item error")
        ELSE progress_update(
                 IF Len(matched.pending_favorites) >= FAVORITE_BATCH
                 THEN flush_favorites(matched, ok)
                 ELSE matched,
                 [current_track_index |-> b[Len(b)]])

Store(st) ==
    /\ report' = st.report
    /\ existing_favorites' = st.existing_favorites
    /\ pending_favorites' = st.pending_favorites
    /\ calls' = st.calls
    /\ qobuz_favorites' = st.qobuz_favorites
    /\ handled' = st.handled
    /\ matcher_calls' = st.matcher_calls
    /\ fast_path_checks' = st.fast_path_checks
    /\ progress' = st.progress
    /\ notified' = st.notified

MatcherIdle ==
    /\ spotify_track = [isrc |-> "", duration |-> 0, has_album |-> FALSE,
                        compilation |-> FALSE, clean_differs |-> FALSE,
                        featured |-> FALSE]
    /\ stage = "done"
    /\ queries = <<>>
    /\ consumed = 0
    /\ scored_candidates = <<>>
    /\ result = NoResult
    /\ suggestions = <<>>
    /\ failed = "none"
    /\ raised = FALSE
    /\ examined_isrc = ""

\* a fresh installation: an empty ledger, the target as the profile has it
Init ==
    /\ profile \in Profiles
    /\ ledger = {}
    /\ qobuz_favorites = InitialFavorites(profile)
    /\ DriverFresh
    /\ MatcherIdle
    /\ PlaylistFresh(<<>>)
    /\ StorageFresh
    /\ ArtistFresh
    /\ RequestFresh
    /\ WebFresh
    /\ ThreadFresh

\* sync_favorites / sync_albums up to the loop: the target's favourites are
\* pre-fetched, the progress display is set up. callback: a progress callback
\* is installed; notify: a per-item synced callback was passed
BeginStreaming(dry, prefetch_ok, callback, notify) ==
    /\ pc' = "stream"
    /\ sync_type' = "favorites"
    /\ runs' = runs + 1
    /\ dry_run' = dry
    /\ already_synced' = ledger
    /\ prefetched' = prefetch_ok
    /\ qobuz_isrc_map' = get_favorites_with_key(profile, qobuz_favorites, prefetch_ok)
    /\ existing_favorites' = MapValues(qobuz_isrc_map')
    /\ cancelled' = FALSE
    /\ track_index' = 0
    /\ batch' = <<>>
    /\ pending_favorites' = <<>>
    /\ report' = NewReport
    /\ calls' = <<>>
    /\ matcher_calls' = {}
    /\ fast_path_checks' = {}
    /\ handled' = {}
    /\ progress_installed' = callback
    /\ on_track_synced' = notify
    /\ progress' = [NewProgress EXCEPT !.delivered = IF callback THEN 1 ELSE 0]
    /\ notified' = <<>>
    /\ UNCHANGED <<profile, ledger, qobuz_favorites, last_run, matcherVars,
                   playlistVars, storageVars, artistVars, threadVars,
                   requestVars, webVars>>

\* run_sync_task loads the ledger and calls sync_favorites / sync_albums
\* with its on_progress callback and without a synced callback
StartSync(dry, prefetch_ok) ==
    /\ pc = "idle" /\ runs < MaxRuns
    /\ BeginStreaming(dry, prefetch_ok, TRUE, FALSE)

\* a caller of AsyncSyncService.sync_favorites / sync_albums that is free
\* to install either callback; one run on a fresh installation
StartRun(dry, prefetch_ok, callback, notify) ==
    /\ pc = "idle" /\ runs = 0 /\ pl_runs = 0
    /\ BeginStreaming(dry, prefetch_ok, callback, notify)

\* AsyncSyncService.cancel
Cancel ==
    /\ pc = "stream" /\ ~cancelled /\ track_index \in CancelPoints
    /\ cancelled' = TRUE
    /\ UNCHANGED <<profile, sync_type, prefetched, ledger, qobuz_favorites, pc, runs,
                   dry_run, already_synced, qobuz_isrc_map, existing_favorites,
                   track_index, batch, pending_favorites, report, calls,
                   matcher_calls, fast_path_checks, handled, last_run, hookCfg,
                   hookState, matcherVars,
                   playlistVars, storageVars, artistVars, threadVars,
                   requestVars, webVars>>

\* one iteration of the for loop over iter_saved_tracks / iter_saved_albums
StreamItem(ok) ==
    /\ pc = "stream" /\ track_index < NumItems
    /\ IF cancelled
       THEN /\ Store(AfterLoop([Local EXCEPT !.report.errors =
                                    Append(@, "Cancelled by user")], batch, ok))
            /\ batch' = batch
            /\ track_index' = track_index
            /\ pc' = "returned"
       ELSE LET b == Append(batch, track_index + 1)
                first == IF track_index = 0
                         THEN progress_update(Local, [total_tracks |-> NumItems])
                         ELSE Local
            IN  /\ track_index' = track_index + 1
                /\ IF Len(b) >= BATCH_SIZE
                   THEN LET st == FullBatch(first, b, ok)
                        IN  /\ Store(st)
                            /\ batch' = IF st.exc THEN b ELSE <<>>
                            /\ pc' = IF st.exc THEN "returned" ELSE "stream"
                   ELSE /\ batch' = b
                        /\ pc' = "stream"
                        /\ progress' = first.progress
                        /\ UNCHANGED <<report, existing_favorites, pending_favorites,
                                       calls, qobuz_favorites, handled, matcher_calls,
                                       fast_path_checks, notified>>
    /\ UNCHANGED <<profile, sync_type, prefetched, ledger, runs, dry_run,
                   already_synced, qobuz_isrc_map, cancelled, last_run, hookCfg,
                   matcherVars,
                   playlistVars, storageVars, artistVars, threadVars,
                   requestVars, webVars>>

\* the stream is exhausted: the loop ends
StreamEnd(ok) ==
    /\ pc = "stream" /\ track_index = NumItems
    /\ Store(AfterLoop(Local, batch, ok))
    /\ pc' = "returned"
    /\ UNCHANGED <<profile, sync_type, prefetched, ledger, runs, dry_run,
                   already_synced, qobuz_isrc_map, cancelled, track_index, batch,
                   last_run, hookCfg, matcherVars,
                   playlistVars, storageVars, artistVars, threadVars,
                   requestVars, webVars>>

\* the source's page request raises inside the generator
StreamError ==
    /\ pc = "stream" /\ track_index < NumItems /\ track_index % PAGE_LIMIT = 0
    /\ Store(OnException(Local, "stream error"))
    /\ pc' = "returned"
    /\ UNCHANGED <<profile, sync_type, prefetched, ledger, runs, dry_run,
                   already_synced, qobuz_isrc_map, cancelled, track_index, batch,
                   last_run, hookCfg, matcherVars,
                   playlistVars, storageVars, artistVars, threadVars,
                   requestVars, webVars>>

\* sync_playlists up to the loop over the playlists; list_ok: whether
\* list_playlists returned. The writes of a playlist sync are not part of
\* the model, so its dry_run flag is not either
StartPlaylists(list_ok) ==
    /\ pc = "idle" /\ runs < MaxRuns
    /\ sync_type' = "playlists"
    /\ runs' = runs + 1
    /\ report' = IF list_ok THEN NewReport
                 ELSE OnException([Local EXCEPT !.report = NewReport], "list error").report
    /\ pc' = IF list_ok THEN "playlists" ELSE "returned"
    /\ UNCHANGED <<profile, prefetched, ledger, qobuz_favorites, dry_run,
                   already_synced, qobuz_isrc_map, existing_favorites, cancelled,
                   track_index, batch, pending_favorites, calls, matcher_calls,
                   fast_path_checks, handled, last_run, hookCfg, hookState,
                   matcherVars,
                   playlistVars, storageVars, artistVars, threadVars,
                   requestVars, webVars>>

\* one iteration of the loop over the playlists; ok: whether
\* _sync_single_playlist returned (it raises when a collaborator call or an
\* item of the playlist fails)
PlaylistStep(ok) ==
    /\ pc = "playlists" /\ track_index < NumPlaylists
    /\ track_index' = track_index + 1
    /\ report' = IF ok THEN Inc(report, "playlists_synced")
                 ELSE [report EXCEPT !.errors = Append(@, "playlist error")]
    /\ UNCHANGED <<profile, sync_type, prefetched, ledger, qobuz_favorites, pc, runs,
                   dry_run, already_synced, qobuz_isrc_map, existing_favorites,
                   cancelled, batch, pending_favorites, calls, matcher_calls,
                   fast_path_checks, handled, last_run, hookCfg, hookState,
                   matcherVars,
                   playlistVars, storageVars, artistVars, threadVars,
                   requestVars, webVars>>

\* the loop over the playlists ends
PlaylistsEnd ==
    /\ pc = "playlists" /\ track_index = NumPlaylists
    /\ report' = [report EXCEPT !.completed_at = TRUE]
    /\ pc' = "returned"
    /\ UNCHANGED <<profile, sync_type, prefetched, ledger, qobuz_favorites, runs,
                   dry_run, already_synced, qobuz_isrc_map, existing_favorites,
                   cancelled, track_index, batch, pending_favorites, calls,
                   matcher_calls, fast_path_checks, handled, last_run, hookCfg,
                   hookState, matcherVars,
                   playlistVars, storageVars, artistVars, threadVars,
                   requestVars, webVars>>

SyncedIds(rep) == {rep.synced_tracks[k].spotify_id : k \in 1..Len(rep.synced_tracks)}

HowEnded(rep) ==
    IF rep.errors = <<>> THEN "completed"
    ELSE IF rep.errors = <<"Cancelled by user">> THEN "cancelled"
    ELSE "failed"

\* the source ids of the entries the write-back calls carried
Flushed == UNION {{calls[k][j].spotify_id : j \in 1..Len(calls[k])} : k \in 1..Len(calls)}

\* the task is over: what it held in memory is gone, the ledger and the
\* target remain
Forget ==
    /\ pc' = "idle"
    /\ dry_run' = FALSE
    /\ prefetched' = FALSE
    /\ already_synced' = {}
    /\ qobuz_isrc_map' = {}
    /\ existing_favorites' = {}
    /\ cancelled' = FALSE
    /\ track_index' = 0
    /\ batch' = <<>>
    /\ pending_favorites' = <<>>
    /\ report' = NewReport
    /\ calls' = <<>>
    /\ matcher_calls' = {}
    /\ fast_path_checks' = {}
    /\ handled' = {}
    /\ progress_installed' = FALSE
    /\ on_track_synced' = FALSE
    /\ progress' = NewProgress
    /\ notified' = <<>>

\* run_sync_task after the report came back: mark_track_synced for every
\* entry of the synced list, unless dry_run
PersistReport ==
    /\ pc = "returned"
    /\ ledger' = IF dry_run THEN ledger ELSE ledger \cup SyncedIds(report)
    /\ last_run' = [how |-> HowEnded(report), sync_type |-> sync_type,
                    dry_run |-> dry_run, synced |-> SyncedIds(report),
                    flushed |-> Flushed]
    /\ Forget
    /\ UNCHANGED <<profile, sync_type, qobuz_favorites, runs, matcherVars,
                   playlistVars, storageVars, artistVars, threadVars,
                   requestVars, webVars>>

\* the process stops while the task runs; the application is started again
\* (lifespan: cleanup_stale_tasks) with what storage and the target hold
Crash ==
    /\ pc \in {"stream", "playlists", "returned"}
    /\ last_run' = [how |-> "crashed", sync_type |-> sync_type,
                    dry_run |-> dry_run, synced |-> SyncedIds(report),
                    flushed |-> Flushed]
    /\ Forget
    /\ UNCHANGED <<profile, sync_type, ledger, qobuz_favorites, runs, matcherVars,
                   playlistVars, storageVars, artistVars, threadVars,
                   requestVars, webVars>>

Next ==
    \/ \E dry \in BOOLEAN, prefetch_ok \in BOOLEAN : StartSync(dry, prefetch_ok)
    \/ Cancel
    \/ \E ok \in BOOLEAN : StreamItem(ok)
    \/ \E ok \in BOOLEAN : StreamEnd(ok)
    \/ StreamError
    \/ \E list_ok \in BOOLEAN : StartPlaylists(list_ok)
    \/ \E ok \in BOOLEAN : PlaylistStep(ok)
    \/ PlaylistsEnd
    \/ PersistReport
    \/ Crash

Spec == Init /\ [][Next]_vars

----------------------------------------------------------------------------
(* The playlist drivers. Source playlist k (1..NumPlaylists) is named k; the *)
(* odd ones hold four tracks, the even ones are empty. Track 1 resolves by  *)
(* exact key, tracks 2 and 3 resolve by text to the same target track, and  *)
(* track 4 resolves to nothing.                                             *)

\* SpotifyClient.list_tracks
PlaylistTracks(k) == IF k % 2 = 1 THEN <<1, 2, 3, 4>> ELSE <<>>

\* TrackMatcher.match_track: the id of the target track, 0 for None
PlTarget(t) ==
    CASE t = 1 -> 101
      [] t \in {2, 3} -> 102
      [] OTHER -> 0

PlMatchType(t) == IF t = 1 THEN "isrc" ELSE "fuzzy"

\* f"{playlist_name} (from Spotify)"
DerivedName(k) == <<k, "(from Spotify)">>

\* the target before the first invocation: no playlist, or the playlist of
\* source playlist 1 from an earlier sync, holding one of its tracks
InitialPlaylists ==
    {<<>>, <<[name |-> DerivedName(1), tracks |-> <<101>>]>>}

\* the part of the state a playlist sync works on
PlLocal ==
    [playlists |-> qobuz_playlists, calls |-> pl_calls, report |-> pl_report,
     reads |-> pl_reads, favorites |-> qobuz_favorites]

Named(pls, name) == {j \in 1..Len(pls) : pls[j].name = name}

\* QobuzClient.find_playlist_by_name over list_user_playlists, which returns
\* [] when its request fails: the id of the first playlist of that name, 0
\* for None
find_playlist_by_name(pls, name, ok) ==
    IF ok /\ Named(pls, name) # {}
    THEN CHOOSE j \in Named(pls, name) : \A i \in Named(pls, name) : j <= i
    ELSE 0

\* QobuzClient.get_playlist_tracks as a set; [] when a request fails
get_playlist_tracks(pls, id, ok) == IF ok THEN SeqRange(pls[id].tracks) ELSE {}

\* QobuzClient.create_playlist; present: a playlist of that name exists in
\* the target when the call is made
create_playlist(ps, name, ok) ==
    [ps EXCEPT
       !.calls = Append(@, [op |-> "create_playlist", playlist |-> name, track |-> 0,
                            present |-> Named(ps.playlists, name) # {},
                            fetched |-> FALSE]),
       !.playlists = IF ok THEN Append(@, [name |-> name, tracks |-> <<>>]) ELSE @]

\* QobuzClient.add_track; present: the track is in the playlist when the
\* call is made; fetched: it was among the tracks fetched at the start
add_track(ps, id, tid, existing, ok) ==
    [ps EXCEPT
       !.calls = Append(@, [op |-> "add_track", playlist |-> id, track |-> tid,
                            present |-> tid \in SeqRange(ps.playlists[id].tracks),
                            fetched |-> tid \in existing]),
       !.playlists = IF ok THEN [@ EXCEPT ![id].tracks = Append(@, tid)] ELSE @]

\* SyncReport.add_matched_track / the counting of _sync_single_playlist
add_matched_track(ps, t) ==
    [ps EXCEPT !.report =
        Inc(Inc(@, "tracks_matched"),
            IF PlMatchType(t) = "isrc" THEN "isrc_matches" ELSE "fuzzy_matches")]

\* SyncReport.add_missing_track
add_missing(ps, k, t) ==
    [ps EXCEPT !.report =
        [Inc(@, "tracks_not_matched") EXCEPT !.missing_tracks = Append(@, <<k, t>>)]]

add_error(ps, msg) == [ps EXCEPT !.report.errors = Append(@, msg)]

\* the loop 'for track in spotify_tracks' of SyncService.sync_playlist
RECURSIVE CliTracks(_, _, _, _, _, _, _)
CliTracks(ps, k, tracks, id, existing, dry, add_ok) ==
    IF tracks = <<>> THEN ps
    ELSE LET t == Head(tracks)
             looked == [ps EXCEPT !.reads = @ \cup {"match_track"}]
             after ==
                 IF PlTarget(t) = 0 THEN add_missing(looked, k, t)
                 ELSE IF dry \/ PlTarget(t) \in existing
                      THEN add_matched_track(looked, t)
                      ELSE add_track(add_matched_track(looked, t), id, PlTarget(t),
                                     existing, add_ok)
         IN  CliTracks(after, k, Tail(tracks), id, existing, dry, add_ok)

\* SyncService.sync_playlist for source playlist k
sync_playlist(ps, k, dry, update, tracks_ok, find_ok, fetch_ok, create_ok, add_ok) ==
    LET listed == [ps EXCEPT !.reads = @ \cup {"list_tracks"}]
        name == DerivedName(k)
        found == IF ~dry /\ update
                 THEN find_playlist_by_name(ps.playlists, name, find_ok) ELSE 0
        existing == IF found # 0
                    THEN get_playlist_tracks(ps.playlists, found, fetch_ok) ELSE {}
        create == ~dry /\ found = 0
        created == IF create THEN create_playlist(listed, name, create_ok) ELSE listed
        id == IF found # 0 THEN found
              ELSE IF create /\ create_ok THEN Len(created.playlists) ELSE 0
    IN  IF ~tracks_ok THEN add_error(listed, "Error syncing playlist")
        ELSE IF PlaylistTracks(k) = <<>>
        THEN [listed EXCEPT !.report = Inc(@, "playlists_synced")]
        ELSE IF create /\ ~create_ok
        THEN add_error(created, "Failed to create playlist")
        ELSE [CliTracks(created, k, PlaylistTracks(k), id, existing, dry, add_ok)
                 EXCEPT !.report = Inc(@, "playlists_synced")]

\* the matching loop of _sync_single_playlist: counts, and collects in acc
\* <<tracks_to_add, existing_track_ids>>
RECURSIVE WebMatch(_, _, _, _)
WebMatch(ps, k, tracks, acc) ==
    IF tracks = <<>> THEN <<ps, acc[1]>>
    ELSE LET t == Head(tracks)
             looked == [ps EXCEPT !.reads = @ \cup {"match_track"}]
         IN  IF PlTarget(t) = 0
             THEN WebMatch(add_missing(looked, k, t), k, Tail(tracks), acc)
             ELSE WebMatch(add_matched_track(looked, t), k, Tail(tracks),
                           IF PlTarget(t) \in acc[2] THEN acc
                           ELSE <<Append(acc[1], PlTarget(t)),
                                  acc[2] \cup {PlTarget(t)}>>)

\* for track_id in tracks_to_add: add_track(...)
RECURSIVE WebAdd(_, _, _, _, _)
WebAdd(ps, id, to_add, existing, add_ok) ==
    IF to_add = <<>> THEN ps
    ELSE WebAdd(add_track(ps, id, Head(to_add), existing, add_ok), id,
                Tail(to_add), existing, add_ok)

\* AsyncSyncService._sync_single_playlist for source playlist k, with the
\* try/except of its caller
_sync_single_playlist(ps, k, dry, tracks_ok, find_ok, fetch_ok, create_ok, add_ok) ==
    LET listed == [ps EXCEPT !.reads = @ \cup {"list_tracks"}]
        name == DerivedName(k)
        found == IF ~dry THEN find_playlist_by_name(ps.playlists, name, find_ok) ELSE 0
        existing == IF found # 0
                    THEN get_playlist_tracks(ps.playlists, found, fetch_ok) ELSE {}
        create == ~dry /\ found = 0
        created == IF create THEN create_playlist(listed, name, create_ok) ELSE listed
        id == IF found # 0 THEN found
              ELSE IF create /\ create_ok THEN Len(created.playlists) ELSE 0
        matched == WebMatch(created, k, PlaylistTracks(k), <<<<>>, existing>>)
        added == IF ~dry /\ id # 0
                 THEN WebAdd(matched[1], id, matched[2], existing, add_ok)
                 ELSE matched[1]
    IN  IF ~tracks_ok THEN add_error(listed, "Playlist error")
        ELSE IF PlaylistTracks(k) = <<>>
        THEN [listed EXCEPT !.report = Inc(@, "playlists_synced")]
        ELSE [added EXCEPT !.report = Inc(@, "playlists_synced")]

\* what the collaborators do for one saved track: every call answers
\* ("ok"), the search raises, or add_favorite_track answers False or raises
\* (the two are counted alike, as a failure)
TrackOutcomes == {"ok", "search_raises", "add_fails"}

\* a mutant of the loop: an exception leaves the loop
RECURSIVE CliFavoriteTracks_abort(_, _, _, _, _)
CliFavoriteTracks_abort(ps, tracks, existing, dry, outcome) ==
    IF tracks = <<>> THEN ps
    ELSE LET t == Head(tracks)
         IN  IF outcome[t] = "search_raises"
             THEN [ps EXCEPT !.report = Inc(@, "failed")]
             ELSE CliFavoriteTracks_abort(
                      [ps EXCEPT !.report = Inc(@, "tracks_not_matched")],
                      Tail(tracks), existing, dry, outcome)

\* the loop of FavoriteSyncService.sync_favorites over the saved tracks;
\* outcome[t] is what the collaborators do for track t
RECURSIVE CliFavoriteTracks(_, _, _, _, _)
CliFavoriteTracks(ps, tracks, existing, dry, outcome) ==
    IF tracks = <<>> THEN ps
    ELSE LET t == Head(tracks)
             looked == [ps EXCEPT !.reads = @ \cup {"match_track"}]
             added == outcome[t] = "ok"
             after ==
                 IF outcome[t] = "search_raises"
                 THEN [looked EXCEPT !.report = Inc(@, "failed")]
                 ELSE IF PlTarget(t) = 0
                 THEN [looked EXCEPT !.report = Inc(@, "tracks_not_matched")]
                 ELSE IF PlTarget(t) \in existing
                 THEN [looked EXCEPT !.report = Inc(@, "already_favorited")]
                 ELSE IF dry
                 THEN [looked EXCEPT !.report = Inc(@, "tracks_matched")]
                 ELSE [looked EXCEPT
                         !.calls = Append(@, [op |-> "add_favorite_track",
                                              playlist |-> 0, track |-> PlTarget(t),
                                              present |-> PlTarget(t) \in looked.favorites,
                                              fetched |-> FALSE]),
                         !.favorites = IF added THEN @ \cup {PlTarget(t)} ELSE @,
                         !.report = Inc(@, IF added THEN "tracks_matched" ELSE "failed")]
         IN  CliFavoriteTracks(after, Tail(tracks), existing, dry, outcome)

PlStore(ps) ==
    /\ qobuz_playlists' = ps.playlists
    /\ pl_calls' = ps.calls
    /\ pl_report' = ps.report
    /\ pl_reads' = ps.reads

\* a new invocation of a playlist or favourites driver
Invocation(driver, dry, update) ==
    [driver |-> driver, dry_run |-> dry, update_existing |-> update,
     only_update |-> pl_cfg.only_update /\ update,
     playlists_at_start |-> qobuz_playlists,
     favorites_at_start |-> qobuz_favorites, outcome |-> <<>>]

\* the streaming driver is not in use and a further invocation may start.
\* The playlist and command-line drivers never read the saved-items stream,
\* whose shape is all that the profile decides: they are run for one profile.
MayInvoke ==
    /\ pc = "idle" /\ runs = 0
    /\ profile = "all_new"
    /\ pl_pc \in {"idle", "done", "setup_failed", "aborted"}
    /\ pl_runs < MaxRuns

\* load_credentials / authenticate_clients: what their caller sees
load_credentials_swallow(ok) == "loaded"
load_credentials(ok) == IF ok THEN "loaded" ELSE "setup_failed"
authenticate_clients(spotify_ok, qobuz_ok) ==
    IF spotify_ok /\ qobuz_ok THEN "authed" ELSE "setup_failed"

\* main() of sync_service up to load_credentials
LoadCredentials(dry, update, ok) ==
    /\ MayInvoke
    /\ pl_runs' = pl_runs + 1
    /\ pl_cfg' = Invocation("cli", dry, update)
    /\ pl_index' = 0
    /\ pl_calls' = <<>>
    /\ pl_reads' = {}
    /\ pl_report' = IF ok THEN NewPlReport
                     ELSE [NewPlReport EXCEPT
                             !.errors = Append(@, "Failed to load credentials")]
    /\ pl_pc' = load_credentials(ok)
    /\ UNCHANGED <<qobuz_playlists, matcherVars, driverVars, storageVars, artistVars, threadVars,
                   requestVars, webVars>>

AuthenticateClients(spotify_ok, qobuz_ok) ==
    /\ pl_pc = "loaded"
    /\ pl_report' = IF spotify_ok /\ qobuz_ok THEN pl_report
                     ELSE [pl_report EXCEPT
                             !.errors = Append(@, "Authentication failed")]
    /\ pl_pc' = authenticate_clients(spotify_ok, qobuz_ok)
    /\ UNCHANGED <<pl_cfg, pl_index, pl_runs, qobuz_playlists, pl_calls, pl_reads,
                   matcherVars, driverVars, storageVars, artistVars, threadVars,
                   requestVars, webVars>>

\* sync_all_playlists up to its loop; a failing list_playlists is noted and
\* raised again
SyncAllPlaylists(list_ok) ==
    /\ pl_pc = "authed"
    /\ pl_reads' = pl_reads \cup {"list_playlists"}
    /\ pl_report' = IF list_ok THEN pl_report
                     ELSE [pl_report EXCEPT !.errors = Append(@, "Sync failed")]
    /\ pl_pc' = IF list_ok THEN "syncing" ELSE "aborted"
    /\ UNCHANGED <<pl_cfg, pl_index, pl_runs, qobuz_playlists, pl_calls,
                   matcherVars, driverVars, storageVars, artistVars, threadVars,
                   requestVars, webVars>>

\* AsyncSyncService._sync_playlists_sync up to its loop (the clients were
\* authenticated by run_sync_task)
WebSyncPlaylists(dry, list_ok) ==
    /\ MayInvoke
    /\ pl_runs' = pl_runs + 1
    /\ pl_cfg' = Invocation("web", dry, TRUE)
    /\ pl_index' = 0
    /\ pl_calls' = <<>>
    /\ pl_reads' = {"list_playlists"}
    /\ pl_report' = IF list_ok THEN NewPlReport
                     ELSE [NewPlReport EXCEPT !.errors = Append(@, "list error"),
                                              !.finalized = TRUE]
    /\ pl_pc' = IF list_ok THEN "syncing" ELSE "done"
    /\ UNCHANGED <<qobuz_playlists, matcherVars, driverVars, storageVars, artistVars, threadVars,
                   requestVars, webVars>>

\* one iteration of the loop over the source playlists
SyncPlaylist(tracks_ok, find_ok, fetch_ok, create_ok, add_ok) ==
    /\ pl_pc = "syncing" /\ pl_index < NumPlaylists
    /\ pl_index' = pl_index + 1
    /\ IF pl_cfg.driver = "cli"
       THEN PlStore(sync_playlist(PlLocal, pl_index + 1, pl_cfg.dry_run,
                                  pl_cfg.update_existing, tracks_ok, find_ok,
                                  fetch_ok, create_ok, add_ok))
       ELSE PlStore(_sync_single_playlist(PlLocal, pl_index + 1, pl_cfg.dry_run,
                                          tracks_ok, find_ok, fetch_ok, create_ok,
                                          add_ok))
    /\ UNCHANGED <<pl_pc, pl_cfg, pl_runs, matcherVars, driverVars, storageVars, artistVars, threadVars,
                   requestVars, webVars>>

\* the loop is over: report.finalize() / completed_at
FinishPlaylists ==
    /\ pl_pc = "syncing" /\ pl_index = NumPlaylists
    /\ pl_report' = [pl_report EXCEPT !.finalized = TRUE]
    /\ pl_pc' = "done"
    /\ UNCHANGED <<pl_cfg, pl_index, pl_runs, qobuz_playlists, pl_calls, pl_reads,
                   matcherVars, driverVars, storageVars, artistVars, threadVars,
                   requestVars, webVars>>

\* FavoriteSyncService.sync_favorites over the saved tracks 1..4;
\* fetch_ok: whether get_favorite_tracks returned
CliFavorites(dry, skip_existing, fetch_ok, add_ok) ==
    /\ MayInvoke
    /\ pl_runs' = pl_runs + 1
    /\ pl_cfg' = Invocation("cli_favorites", dry, pl_cfg.update_existing)
    /\ pl_index' = 0
    /\ LET existing == IF skip_existing /\ fetch_ok THEN qobuz_favorites ELSE {}
           start == [PlLocal EXCEPT !.calls = <<>>, !.report = NewPlReport,
                                    !.reads = {"get_saved_tracks"}]
           outcome == [t \in SeqRange(PlaylistTracks(1)) |->
                          IF add_ok THEN "ok" ELSE "add_fails"]
           ps == CliFavoriteTracks(start, PlaylistTracks(1), existing, dry, outcome)
       IN  /\ PlStore([ps EXCEPT !.report.finalized = TRUE])
           /\ qobuz_favorites' = ps.favorites
    /\ pl_pc' = "done"
    /\ UNCHANGED <<profile, sync_type, prefetched, ledger, pc, runs, dry_run,
                   already_synced, qobuz_isrc_map, existing_favorites, cancelled,
                   track_index, batch, pending_favorites, report, calls,
                   matcher_calls, fast_path_checks, handled, last_run, hookCfg,
                   hookState, matcherVars, storageVars, artistVars, threadVars,
                   requestVars, webVars>>

\* FavoriteSyncService.sync_favorites, an invocation where the collaborators
\* may act differently for each saved track
SyncFavorites(dry, skip_existing, fetch_ok, outcome) ==
    /\ MayInvoke
    /\ pl_runs' = pl_runs + 1
    /\ pl_cfg' = [Invocation("cli_favorites", dry, pl_cfg.update_existing)
                    EXCEPT !.outcome = outcome]
    /\ pl_index' = 0
    /\ LET existing == IF skip_existing /\ fetch_ok THEN qobuz_favorites ELSE {}
           start == [PlLocal EXCEPT !.calls = <<>>, !.report = NewPlReport,
                                    !.reads = {"get_saved_tracks"}]
           ps == CliFavoriteTracks(start, PlaylistTracks(1), existing, dry, outcome)
       IN  /\ PlStore([ps EXCEPT !.report.finalized = TRUE])
           /\ qobuz_favorites' = ps.favorites
    /\ pl_pc' = "done"
    /\ UNCHANGED <<profile, sync_type, prefetched, ledger, pc, runs, dry_run,
                   already_synced, qobuz_isrc_map, existing_favorites, cancelled,
                   track_index, batch, pending_favorites, report, calls,
                   matcher_calls, fast_path_checks, handled, last_run, hookCfg,
                   hookState, matcherVars, storageVars, artistVars, threadVars,
                   requestVars, webVars>>

FavInit ==
    /\ profile = "all_new"
    /\ ledger = {}
    /\ qobuz_favorites = InitialFavorites(profile)
    /\ DriverFresh
    /\ MatcherIdle
    /\ PlaylistFresh(<<>>)
    /\ StorageFresh
    /\ ArtistFresh
    /\ RequestFresh
    /\ WebFresh
    /\ ThreadFresh

FavNext ==
    \E dry \in BOOLEAN, skip_existing \in BOOLEAN, fetch_ok \in BOOLEAN,
       outcome \in [SeqRange(PlaylistTracks(1)) -> TrackOutcomes] :
       SyncFavorites(dry, skip_existing, fetch_ok, outcome)

SpecFav == FavInit /\ [][FavNext]_vars

\* the extraction of featured artists, on every artist string of the bound
ArtistInit ==
    /\ artist_string \in UNION {[1..n -> ArtistTokens] : n \in 0..MaxTokens}
    /\ extracted = NoExtract
    /\ profile = "all_new"
    /\ ledger = {}
    /\ qobuz_favorites = InitialFavorites(profile)
    /\ DriverFresh
    /\ MatcherIdle
    /\ PlaylistFresh(<<>>)
    /\ StorageFresh
    /\ ThreadFresh
    /\ RequestFresh
    /\ WebFresh

ArtistNext == ExtractFeaturedArtists

SpecArtist == ArtistInit /\ [][ArtistNext]_vars

----------------------------------------------------------------------------
(* The control thread of a streaming sync, batch by batch: the thread      *)
(* that reads the source stream, hands each batch to the worker pool,      *)
(* waits for its results, queues the new matches and calls the write-back. *)
(* The runs are not dry runs.                                              *)

\* batches a run matches
MaxBatches == 3

\* len(batch) of a batch handed to the pool: a full one, or what is left
\* when the stream ends
BatchSizes == {BATCH_SIZE, 20}

\* new matches the results of a batch can queue
NewMatchCounts == {0, 10, 25, 50}

RECURSIVE SumSeq(_)
SumSeq(q) == IF q = <<>> THEN 0 ELSE Head(q) + SumSeq(Tail(q))

\* futures = [executor.submit(...) for item in batch]: a batch is handed to
\* the pool, inside the loop when it is full, after the loop when the
\* stream ended on a partial batch
DispatchBatch(size) ==
    /\ control.pc = "stream"
    /\ control.batch_no < MaxBatches
    /\ control' = [control EXCEPT !.pc = "matching", !.batch_no = @ + 1,
                                  !.batch_size = size,
                                  !.final = size < BATCH_SIZE]
    /\ UNCHANGED <<rate_limiter, workers, matcherVars, driverVars, playlistVars,
                   storageVars, artistVars,
                   requestVars, webVars>>

\* results = [f.result() for f in futures], then the loop over the results
\* that queues the new matches, then the test of the flush threshold (in
\* the loop) or the last flush (after it): flush_favorites calls
\* add_favorite_tracks_batch / add_favorite_albums_batch when the list is
\* not empty
CollectResults(new_matches) ==
    /\ control.pc = "matching"
    /\ new_matches <= control.batch_size
    /\ LET queued == Append(control.pending, new_matches)
           flush == IF control.final THEN SumSeq(queued) > 0
                    ELSE SumSeq(queued) >= FAVORITE_BATCH
       IN  control' = [control EXCEPT
                         !.pending = queued,
                         !.pc = IF flush THEN "flushing"
                                ELSE IF control.final THEN "returned"
                                ELSE "stream"]
    /\ UNCHANGED <<rate_limiter, workers, matcherVars, driverVars, playlistVars,
                   storageVars, artistVars,
                   requestVars, webVars>>

\* the stream ends on a batch boundary: the last flush
EndOfStream ==
    /\ control.pc = "stream"
    /\ control' = [control EXCEPT
                     !.final = TRUE,
                     !.pc = IF SumSeq(control.pending) > 0 THEN "flushing"
                            ELSE "returned"]
    /\ UNCHANGED <<rate_limiter, workers, matcherVars, driverVars, playlistVars,
                   storageVars, artistVars,
                   requestVars, webVars>>

\* the write-back call returns: the callbacks are called and the list is
\* emptied, and the control thread goes on
FlushReturns ==
    /\ control.pc = "flushing"
    /\ control' = [control EXCEPT
                     !.pending = [b \in 1..Len(@) |-> 0],
                     !.written = @ + 1,
                     !.pc = IF control.final THEN "returned" ELSE "stream"]
    /\ UNCHANGED <<rate_limiter, workers, matcherVars, driverVars, playlistVars,
                   storageVars, artistVars,
                   requestVars, webVars>>

\* the write-back call raises: the run ends in its except clause
FlushRaises ==
    /\ control.pc = "flushing"
    /\ control' = [control EXCEPT !.pc = "returned"]
    /\ UNCHANGED <<rate_limiter, workers, matcherVars, driverVars, playlistVars,
                   storageVars, artistVars,
                   requestVars, webVars>>

BatchInit ==
    /\ control \in {[pc |-> "stream", sync_type |-> t, batch_no |-> 0,
                      batch_size |-> 0, pending |-> <<>>, written |-> 0,
                      final |-> FALSE] : t \in {"favorites", "albums"}}
    /\ rate_limiter = [delay |-> 0]
    /\ workers = <<>>
    /\ profile = "all_new"
    /\ ledger = {}
    /\ qobuz_favorites = InitialFavorites(profile)
    /\ DriverFresh
    /\ MatcherIdle
    /\ PlaylistFresh(<<>>)
    /\ StorageFresh
    /\ ArtistFresh
    /\ RequestFresh
    /\ WebFresh

BatchNext ==
    \/ \E size \in BatchSizes : DispatchBatch(size)
    \/ \E new_matches \in NewMatchCounts : CollectResults(new_matches)
    \/ EndOfStream
    \/ FlushReturns
    \/ FlushRaises

SpecBatches == BatchInit /\ [][BatchNext]_vars

----------------------------------------------------------------------------
(* The worker threads of the pool while a batch is matched. Every worker   *)
(* runs the matcher on its items, and every search of the matcher goes     *)
(* through QobuzClient._make_request of the one client of the service, so  *)
(* through the one AdaptiveRateLimiter of that client. No lock is taken on *)
(* that path: a step below is one read or one write of a field of the      *)
(* limiter, and the steps of different workers interleave freely. Delays   *)
(* are in milliseconds.                                                    *)

\* worker threads followed (of the MATCH_WORKERS of the pool)
NumWorkers == 2

\* requests made while the batch is matched; control.rate_limits counts
\* the 429 answers among them
MaxRequests == 11

\* max_workers of the ThreadPoolExecutor
MATCH_WORKERS == 25

\* AdaptiveRateLimiter(initial_delay=0.05, max_delay=5.0) of QobuzClient
INITIAL_DELAY == 50
MAX_DELAY == 5000

\* consecutive successes after which the limiter speeds up
SPEEDUP_AFTER == 10

Workers == 1..Min(NumWorkers, MATCH_WORKERS)

IdleWorker == [pc |-> "idle", loaded |-> 0]

\* AdaptiveRateLimiter.__init__
AdaptiveRateLimiter(initial_delay, max_delay) ==
    [delay |-> initial_delay, initial_delay |-> initial_delay,
     max_delay |-> max_delay, consecutive_successes |-> 0,
     rate_limited_count |-> 0]

\* self.rate_limiter of QobuzClient
NewRateLimiter == AdaptiveRateLimiter(INITIAL_DELAY, MAX_DELAY)

\* rate_limiter.wait() and the request: the answer is a success or a 429
SendRequest(w, status) ==
    /\ control.pc = "matching"
    /\ workers[w].pc = "idle"
    /\ control.requests < MaxRequests
    /\ control' = [control EXCEPT !.requests = @ + 1,
                                  !.rate_limits = IF status = 429 THEN @ + 1 ELSE @]
    /\ workers' = [workers EXCEPT ![w].pc = IF status = 429 THEN "on_rate_limit"
                                            ELSE "on_success"]
    /\ UNCHANGED <<rate_limiter, matcherVars, driverVars, playlistVars,
                   storageVars, artistVars,
                   requestVars, webVars>>

\* on_success, self.consecutive_successes += 1: the read
SuccessLoad(w) ==
    /\ workers[w].pc = "on_success"
    /\ workers' = [workers EXCEPT ![w].pc = "success_store",
                                  ![w].loaded = rate_limiter.consecutive_successes]
    /\ UNCHANGED <<control, rate_limiter, matcherVars, driverVars, playlistVars,
                   storageVars, artistVars,
                   requestVars, webVars>>

\* on_success, self.consecutive_successes += 1: the write
SuccessStore(w) ==
    /\ workers[w].pc = "success_store"
    /\ rate_limiter' = [rate_limiter EXCEPT
                          !.consecutive_successes = workers[w].loaded + 1]
    /\ workers' = [workers EXCEPT ![w].pc = "speed_up", ![w].loaded = 0]
    /\ UNCHANGED <<control, matcherVars, driverVars, playlistVars,
                   storageVars, artistVars,
                   requestVars, webVars>>

\* on_success, the test and the speed-up
SpeedUp(w) ==
    /\ workers[w].pc = "speed_up"
    /\ rate_limiter' =
          IF /\ rate_limiter.consecutive_successes >= SPEEDUP_AFTER
             /\ rate_limiter.delay > INITIAL_DELAY
          THEN [rate_limiter EXCEPT
                  !.delay = IF (@ * 8) \div 10 > INITIAL_DELAY
                            THEN (@ * 8) \div 10 ELSE INITIAL_DELAY,
                  !.consecutive_successes = 0]
          ELSE rate_limiter
    /\ workers' = [workers EXCEPT ![w].pc = "idle"]
    /\ UNCHANGED <<control, matcherVars, driverVars, playlistVars,
                   storageVars, artistVars,
                   requestVars, webVars>>

\* on_rate_limit, self.consecutive_successes = 0 and the read of
\* self.rate_limited_count += 1
RateLimitLoad(w) ==
    /\ workers[w].pc = "on_rate_limit"
    /\ rate_limiter' = [rate_limiter EXCEPT !.consecutive_successes = 0]
    /\ workers' = [workers EXCEPT ![w].pc = "rate_limit_store",
                                  ![w].loaded = rate_limiter.rate_limited_count]
    /\ UNCHANGED <<control, matcherVars, driverVars, playlistVars,
                   storageVars, artistVars,
                   requestVars, webVars>>

\* on_rate_limit, the write of self.rate_limited_count += 1
RateLimitStore(w) ==
    /\ workers[w].pc = "rate_limit_store"
    /\ rate_limiter' = [rate_limiter EXCEPT
                          !.rate_limited_count = workers[w].loaded + 1]
    /\ workers' = [workers EXCEPT ![w].pc = "slow_down", ![w].loaded = 0]
    /\ UNCHANGED <<control, matcherVars, driverVars, playlistVars,
                   storageVars, artistVars,
                   requestVars, webVars>>

\* on_rate_limit, self.delay = min(self.max_delay, self.delay * 2)
SlowDown(w) ==
    /\ workers[w].pc = "slow_down"
    /\ rate_limiter' = [rate_limiter EXCEPT
                          !.delay = IF @ * 2 < MAX_DELAY THEN @ * 2 ELSE MAX_DELAY]
    /\ workers' = [workers EXCEPT ![w].pc = "idle"]
    /\ UNCHANGED <<control, matcherVars, driverVars, playlistVars,
                   storageVars, artistVars,
                   requestVars, webVars>>

LimiterInit ==
    /\ control = [pc |-> "matching", requests |-> 0, rate_limits |-> 0]
    /\ rate_limiter = NewRateLimiter
    /\ workers = [w \in Workers |-> IdleWorker]
    /\ profile = "all_new"
    /\ ledger = {}
    /\ qobuz_favorites = InitialFavorites(profile)
    /\ DriverFresh
    /\ MatcherIdle
    /\ PlaylistFresh(<<>>)
    /\ StorageFresh
    /\ ArtistFresh
    /\ RequestFresh
    /\ WebFresh

LimiterNext ==
    \E w \in Workers :
        \/ \E status \in {200, 429} : SendRequest(w, status)
        \/ SuccessLoad(w)
        \/ SuccessStore(w)
        \/ SpeedUp(w)
        \/ RateLimitLoad(w)
        \/ RateLimitStore(w)
        \/ SlowDown(w)

SpecLimiter == LimiterInit /\ [][LimiterNext]_vars

----------------------------------------------------------------------------
(* One call of QobuzClient._make_request made by a search wrapper, on one  *)
(* thread. A step is one pass of the loop 'for attempt in                  *)
(* range(max_retries + 1)': the wait of the rate limiter, the HTTP         *)
(* request, and what the code does with the answer, its sleep included.    *)
(* Delays of the loop are in seconds, those of the limiter in              *)
(* milliseconds.                                                           *)

\* max_retries: int = 3
MAX_RETRIES == 3

\* what the backend answers to one HTTP request: a status with, for 429,
\* the Retry-After header ("none": no header; "date": an HTTP date), or no
\* answer at all (a RequestException: time-out, connection error)
Answers ==
    {[status |-> 200, retry_after |-> "none"],
     [status |-> 404, retry_after |-> "none"],
     [status |-> 500, retry_after |-> "none"],
     [status |-> 0, retry_after |-> "none"]}
    \cup {[status |-> 429, retry_after |-> h] : h \in {"none", "0", "1", "30", "date"}}

\* the wrappers that call _make_request inside try / except Exception
SearchWrappers == {"_search_candidates", "search_by_isrc", "search_album"}

\* int() of a Retry-After header made of digits
HeaderSeconds(h) == CASE h = "0" -> 0 [] h = "1" -> 1 [] OTHER -> 30

\* 'e.response.status_code if e.response else 0' for the HTTPError raised
\* by response.raise_for_status(): the truth value of a requests Response
\* is its attribute ok, which is False for every status of 400 and above,
\* the only ones raise_for_status raises for
StatusSeen(status) == IF status < 400 THEN status ELSE 0

\* a mutant: the status of the error response is read
StatusSeen_read(status) == status

\* on_success as one call
on_success(rl) ==
    LET counted == [rl EXCEPT !.consecutive_successes = @ + 1]
    IN  IF /\ counted.consecutive_successes >= SPEEDUP_AFTER
           /\ counted.delay > rl.initial_delay
        THEN [counted EXCEPT
                !.delay = Max((@ * 8) \div 10, rl.initial_delay),
                !.consecutive_successes = 0]
        ELSE counted

\* a mutant of on_rate_limit: the delay is doubled without the cap
on_rate_limit_nocap(rl) ==
    [rl EXCEPT !.consecutive_successes = 0,
               !.rate_limited_count = @ + 1,
               !.delay = @ * 2]

\* on_rate_limit as one call
on_rate_limit(rl) ==
    [rl EXCEPT !.consecutive_successes = 0,
               !.rate_limited_count = @ + 1,
               !.delay = Min(rl.max_delay, @ * 2)]

\* the call ends: data is returned, or an exception leaves _make_request
\* and the except clause of the wrapper returns its empty result
Finish(req, raises) ==
    [req EXCEPT !.pc = "done", !.raised = raises,
                !.result = IF raises THEN "empty" ELSE "data"]

\* the end of a pass that did not leave the loop: the next pass, or the
\* raise after the loop
NextPass(req) ==
    IF req.attempt < MAX_RETRIES THEN [req EXCEPT !.attempt = @ + 1]
    ELSE Finish(req, TRUE)

\* one pass of the loop with its answer
Attempt(answer) ==
    /\ request.pc = "loop"
    /\ LET sent == [request EXCEPT !.answers = Append(@, answer.status)]
           slept(req, seconds) == [req EXCEPT !.sleeps = Append(@, seconds)]
           seen == StatusSeen(answer.status)
       IN  CASE answer.status = 200 ->
                  /\ request' = Finish(sent, FALSE)
                  /\ rate_limiter' = on_success(rate_limiter)
             [] answer.status = 429 ->
                  /\ rate_limiter' = on_rate_limit(rate_limiter)
                  /\ request' =
                        IF answer.retry_after = "date"
                        THEN \* int() raises ValueError, which no clause of
                             \* _make_request catches
                             Finish(sent, TRUE)
                        ELSE LET retry_after ==
                                     IF answer.retry_after = "none"
                                     THEN sent.delay * 2
                                     ELSE HeaderSeconds(answer.retry_after)
                             IN  NextPass([slept(sent, retry_after)
                                              EXCEPT !.delay = retry_after])
             [] answer.status = 0 ->
                  /\ rate_limiter' = rate_limiter
                  /\ request' =
                        IF sent.attempt < MAX_RETRIES
                        THEN NextPass([slept(sent, sent.delay) EXCEPT !.delay = @ * 2])
                        ELSE NextPass(sent)
             [] OTHER ->
                  /\ rate_limiter' = rate_limiter
                  /\ request' =
                        IF 400 <= seen /\ seen < 500
                        THEN Finish(sent, TRUE)
                        ELSE IF sent.attempt < MAX_RETRIES
                        THEN NextPass([slept(sent, sent.delay) EXCEPT !.delay = @ * 2])
                        ELSE NextPass(sent)
    /\ UNCHANGED <<control, workers, matcherVars, driverVars, playlistVars,
                   storageVars, artistVars, webVars>>

RequestInit ==
    /\ request \in {[pc |-> "loop", wrapper |-> w, attempt |-> 0, delay |-> 1,
                      answers |-> <<>>, sleeps |-> <<>>, raised |-> FALSE,
                      result |-> "none"] : w \in SearchWrappers}
    /\ rate_limiter = NewRateLimiter
    /\ control = [pc |-> "none"]
    /\ workers = <<>>
    /\ profile = "all_new"
    /\ ledger = {}
    /\ qobuz_favorites = InitialFavorites(profile)
    /\ DriverFresh
    /\ MatcherIdle
    /\ PlaylistFresh(<<>>)
    /\ StorageFresh
    /\ ArtistFresh
    /\ WebFresh

RequestNext == \E answer \in Answers : Attempt(answer)

SpecRequest == RequestInit /\ [][RequestNext]_vars

----------------------------------------------------------------------------
(* An AdaptiveRateLimiter called by one thread: any sequence of on_success *)
(* and on_rate_limit calls, on limiters of several initial and maximal     *)
(* delays. control counts the calls and keeps the name of the last one and *)
(* the successes made since the last rate limit or the last speed-up.      *)

\* calls made on a limiter
MaxCalls == 12

\* initial_delay and max_delay of the limiters, in milliseconds
LimiterDelays == {<<50, 5000>>, <<100, 5000>>, <<100, 300>>, <<100, 100>>, <<0, 5000>>}

OnSuccess ==
    /\ control.pc = "calls" /\ control.calls < MaxCalls
    /\ rate_limiter' = on_success(rate_limiter)
    /\ control' = [control EXCEPT
                     !.calls = @ + 1, !.last = "on_success",
                     !.streak = IF rate_limiter'.delay < rate_limiter.delay
                                THEN 0 ELSE @ + 1]
    /\ UNCHANGED <<workers, matcherVars, driverVars, playlistVars, storageVars,
                   artistVars, requestVars, webVars>>

OnRateLimit ==
    /\ control.pc = "calls" /\ control.calls < MaxCalls
    /\ rate_limiter' = on_rate_limit(rate_limiter)
    /\ control' = [control EXCEPT !.calls = @ + 1, !.last = "on_rate_limit",
                                  !.streak = 0]
    /\ UNCHANGED <<workers, matcherVars, driverVars, playlistVars, storageVars,
                   artistVars, requestVars, webVars>>

DelayInit ==
    /\ rate_limiter \in {AdaptiveRateLimiter(d[1], d[2]) : d \in LimiterDelays}
    /\ control = [pc |-> "calls", calls |-> 0, last |-> "none", streak |-> 0]
    /\ workers = <<>>
    /\ profile = "all_new"
    /\ ledger = {}
    /\ qobuz_favorites = InitialFavorites(profile)
    /\ DriverFresh
    /\ MatcherIdle
    /\ PlaylistFresh(<<>>)
    /\ StorageFresh
    /\ ArtistFresh
    /\ RequestFresh
    /\ WebFresh

DelayNext == OnSuccess \/ OnRateLimit

SpecDelay == DelayInit /\ [][DelayNext]_vars

----------------------------------------------------------------------------
(* A single run of a driver, constructed in any way its signature allows,  *)
(* or up to MaxRuns invocations of the playlist and favourites drivers      *)

RunInit ==
    /\ profile \in Profiles
    /\ ledger = {}
    /\ qobuz_favorites = InitialFavorites(profile)
    /\ DriverFresh
    /\ MatcherIdle
    /\ \E target \in InitialPlaylists :
          /\ target # <<>> => profile = "all_new"
          /\ PlaylistFresh(target)
    /\ StorageFresh
    /\ ArtistFresh
    /\ RequestFresh
    /\ WebFresh
    /\ ThreadFresh

RunNext ==
    \/ \E dry \in BOOLEAN, prefetch_ok \in BOOLEAN, callback \in BOOLEAN,
          notify \in BOOLEAN : StartRun(dry, prefetch_ok, callback, notify)
    \/ Cancel
    \/ \E ok \in BOOLEAN : StreamItem(ok)
    \/ \E ok \in BOOLEAN : StreamEnd(ok)
    \/ StreamError
    \/ \E dry \in BOOLEAN, update \in BOOLEAN, ok \in BOOLEAN :
          LoadCredentials(dry, update, ok)
    \/ \E spotify_ok \in BOOLEAN, qobuz_ok \in BOOLEAN :
          AuthenticateClients(spotify_ok, qobuz_ok)
    \/ \E list_ok \in BOOLEAN : SyncAllPlaylists(list_ok)
    \/ \E dry \in BOOLEAN, list_ok \in BOOLEAN : WebSyncPlaylists(dry, list_ok)
    \/ \E tracks_ok \in BOOLEAN, find_ok \in BOOLEAN, fetch_ok \in BOOLEAN,
          create_ok \in BOOLEAN, add_ok \in BOOLEAN :
          SyncPlaylist(tracks_ok, find_ok, fetch_ok, create_ok, add_ok)
    \/ FinishPlaylists
    \/ \E dry \in BOOLEAN, skip_existing \in BOOLEAN, fetch_ok \in BOOLEAN,
          add_ok \in BOOLEAN : CliFavorites(dry, skip_existing, fetch_ok, add_ok)

SpecRun == RunInit /\ [][RunNext]_vars

----------------------------------------------------------------------------
(* The sync ledger: table synced_tracks of Storage. The table is created   *)
(* with spotify_id as its only primary key, so it holds at most one row    *)
(* for a source id, whatever the sync type.                                *)

\* source ids that callers mark
MaxIds == 2
SourceIds == 1..MaxIds
QobuzIds == {101, 102}
SyncTypes == {"favorites", "albums", "playlists"}

\* INSERT OR REPLACE INTO synced_tracks: a row with the same primary key is
\* deleted before the new row is inserted
mark_track_synced(rows, spotify_id, qobuz_id, type) ==
    {r \in rows : r.spotify_id # spotify_id}
        \cup {[spotify_id |-> spotify_id, qobuz_id |-> qobuz_id,
               sync_type |-> type]}

\* SELECT spotify_id FROM synced_tracks WHERE sync_type = ?
get_synced_track_ids(rows, type) ==
    {r.spotify_id : r \in {x \in rows : x.sync_type = type}}

\* SELECT 1 FROM synced_tracks WHERE spotify_id = ? AND sync_type = ?
is_track_synced(rows, spotify_id, type) ==
    \E r \in rows : r.spotify_id = spotify_id /\ r.sync_type = type

\* DELETE FROM synced_tracks WHERE sync_type = ?
clear_synced_tracks(rows, type) == {r \in rows : r.sync_type # type}

\* a caller marks a source id: run_sync_task after a run, add_qobuz_favorite,
\* resolve_unmatched with the sync type of its form
MarkTrackSynced(spotify_id, qobuz_id, type) ==
    /\ synced_tracks' = mark_track_synced(synced_tracks, spotify_id, qobuz_id, type)
    /\ last_op' = [op |-> "mark", spotify_id |-> spotify_id, sync_type |-> type]
    /\ UNCHANGED <<matcherVars, driverVars, playlistVars, artistVars, threadVars,
                   requestVars, webVars>>

ClearSyncedTracks(type) ==
    /\ synced_tracks' = clear_synced_tracks(synced_tracks, type)
    /\ last_op' = [op |-> "clear", spotify_id |-> 0, sync_type |-> type]
    /\ UNCHANGED <<matcherVars, driverVars, playlistVars, artistVars, threadVars,
                   requestVars, webVars>>

StorageInit ==
    /\ profile = "all_new"
    /\ ledger = {}
    /\ qobuz_favorites = InitialFavorites(profile)
    /\ DriverFresh
    /\ MatcherIdle
    /\ PlaylistFresh(<<>>)
    /\ StorageFresh
    /\ ArtistFresh
    /\ RequestFresh
    /\ WebFresh
    /\ ThreadFresh

StorageNext ==
    \/ \E spotify_id \in SourceIds, qobuz_id \in QobuzIds, type \in SyncTypes :
          MarkTrackSynced(spotify_id, qobuz_id, type)
    \/ \E type \in SyncTypes : ClearSyncedTracks(type)

SpecStorage == StorageInit /\ [][StorageNext]_vars

----------------------------------------------------------------------------
(* The review list of unmatched items (table unmatched_tracks) *)

\* the sync types whose runs save unmatched items
ReviewTypes == {"favorites", "albums"}

\* INSERT OR REPLACE INTO unmatched_tracks ... VALUES (..., 'pending', ...):
\* the row that conflicts on UNIQUE(spotify_id, sync_type) is deleted, the
\* new row has status 'pending' and no resolved_qobuz_id
save_unmatched_track(rows, spotify_id, type) ==
    {r \in rows : ~(r.spotify_id = spotify_id /\ r.sync_type = type)}
        \cup {[spotify_id |-> spotify_id, sync_type |-> type,
               status |-> "pending", resolved_qobuz_id |-> 0]}

\* UPDATE unmatched_tracks SET status = 'dismissed' WHERE spotify_id = ? AND
\* sync_type = ?
dismiss_unmatched_track(rows, spotify_id, type) ==
    {IF r.spotify_id = spotify_id /\ r.sync_type = type
     THEN [r EXCEPT !.status = "dismissed"] ELSE r : r \in rows}

\* UPDATE unmatched_tracks SET status = 'resolved', resolved_qobuz_id = ?
\* WHERE spotify_id = ? AND sync_type = ?
resolve_unmatched_track(rows, spotify_id, type, qobuz_id) ==
    {IF r.spotify_id = spotify_id /\ r.sync_type = type
     THEN [r EXCEPT !.status = "resolved", !.resolved_qobuz_id = qobuz_id]
     ELSE r : r \in rows}

\* DELETE FROM unmatched_tracks [WHERE sync_type = ?]; "" stands for None
clear_unmatched_tracks(rows, type) ==
    IF type # "" THEN {r \in rows : r.sync_type # type} ELSE {}

\* status of the row of a source id and sync type; "absent": no such row
UnmatchedStatus(rows, spotify_id, type) ==
    LET hit == {r \in rows : r.spotify_id = spotify_id /\ r.sync_type = type}
    IN  IF hit = {} THEN "absent" ELSE (CHOOSE r \in hit : TRUE).status

RECURSIVE MarkAll(_, _, _)
MarkAll(rows, ids, type) ==
    IF ids = {} THEN rows
    ELSE LET i == CHOOSE x \in ids : TRUE
         IN  MarkAll(mark_track_synced(rows, i, QobuzId(i), type), ids \ {i}, type)

RECURSIVE SaveAll(_, _, _)
SaveAll(rows, ids, type) ==
    IF ids = {} THEN rows
    ELSE LET i == CHOOSE x \in ids : TRUE
         IN  SaveAll(save_unmatched_track(rows, i, type), ids \ {i}, type)

\* what run_sync_task stores after a favourites or albums run: the run was
\* given the ledger of its type, its report lists matched source ids outside
\* the ledger as synced and the ids it failed to match as missing; the
\* synced ids are marked unless dry_run, every missing id is saved
RunSyncTask(type, dry, matched, missing) ==
    /\ matched \cap missing = {}
    /\ (matched \cup missing) \cap get_synced_track_ids(synced_tracks, type) = {}
    /\ synced_tracks' = IF dry THEN synced_tracks
                        ELSE MarkAll(synced_tracks, matched, type)
    /\ unmatched_tracks' = SaveAll(unmatched_tracks, missing, type)
    /\ UNCHANGED <<last_op, matcherVars, driverVars, playlistVars, artistVars,
                   threadVars, requestVars, sync_tasks>>

\* POST /api/unmatched/{spotify_id}/dismiss
DismissUnmatched(spotify_id, type) ==
    /\ unmatched_tracks' = dismiss_unmatched_track(unmatched_tracks, spotify_id, type)
    /\ UNCHANGED <<synced_tracks, last_op, matcherVars, driverVars, playlistVars,
                   artistVars, threadVars, requestVars, sync_tasks>>

\* POST /api/unmatched/{spotify_id}/resolve: the row is resolved and the
\* source id marked as synced only if the add succeeded
ResolveUnmatched(spotify_id, type, qobuz_id, success) ==
    /\ unmatched_tracks' =
          IF success
          THEN resolve_unmatched_track(unmatched_tracks, spotify_id, type, qobuz_id)
          ELSE unmatched_tracks
    /\ synced_tracks' =
          IF success THEN mark_track_synced(synced_tracks, spotify_id, qobuz_id, type)
          ELSE synced_tracks
    /\ UNCHANGED <<last_op, matcherVars, driverVars, playlistVars, artistVars,
                   threadVars, requestVars, sync_tasks>>

\* POST /api/unmatched/clear
ClearUnmatched(type) ==
    /\ unmatched_tracks' = clear_unmatched_tracks(unmatched_tracks, type)
    /\ UNCHANGED <<synced_tracks, last_op, matcherVars, driverVars, playlistVars,
                   artistVars, threadVars, requestVars, sync_tasks>>

ReviewNext ==
    \/ \E type \in ReviewTypes, dry \in BOOLEAN, matched \in SUBSET SourceIds,
          missing \in SUBSET SourceIds : RunSyncTask(type, dry, matched, missing)
    \/ \E spotify_id \in SourceIds, type \in ReviewTypes :
          DismissUnmatched(spotify_id, type)
    \/ \E spotify_id \in SourceIds, type \in ReviewTypes, success \in BOOLEAN :
          ResolveUnmatched(spotify_id, type, QobuzId(spotify_id), success)
    \/ \E type \in ReviewTypes \cup {""} : ClearUnmatched(type)

SpecReview == StorageInit /\ [][ReviewNext]_vars

----------------------------------------------------------------------------
(* Sync tasks of the web application (tables sync_tasks, migrations) *)

\* sync tasks started over the life of the storage
MaxTasks == 2

\* stored statuses no code path of a task leaves
FinalStatuses == {"completed", "failed"}

TaskIds == 1..MaxTasks

\* cleanup_stale_tasks that looks for status 'running' only
cleanup_stale_tasks_running(tasks) ==
    [t \in 1..Len(tasks) |->
        [tasks[t] EXCEPT
            !.status = IF @ = "running" THEN "interrupted" ELSE @,
            !.migration = IF @ = "running" THEN "interrupted" ELSE @]]

\* UPDATE sync_tasks SET status = 'interrupted' WHERE status IN ('running',
\* 'pending', 'starting'); UPDATE migrations SET status = 'interrupted' WHERE
\* status = 'running'
cleanup_stale_tasks(tasks) ==
    [t \in 1..Len(tasks) |->
        [tasks[t] EXCEPT
            !.status = IF @ \in {"running", "pending", "starting"}
                       THEN "interrupted" ELSE @,
            !.migration = IF @ = "running" THEN "interrupted" ELSE @]]

\* what a task step leaves alone
TaskFrame ==
    UNCHANGED <<matcherVars, driverVars, playlistVars, storageVars, artistVars,
                rate_limiter, workers, requestVars, unmatched_tracks>>

\* the coroutine of task t moves to position pc
Move(t, pc_after, status_after, migration_after) ==
    /\ sync_tasks' = [sync_tasks EXCEPT ![t] = [pc |-> pc_after,
                                                 status |-> status_after,
                                                 migration |-> migration_after]]
    /\ UNCHANGED control
    /\ TaskFrame

\* POST /sync/start: create_migration inserts the migration as 'running',
\* create_task the task as 'pending', run_sync_task is scheduled
start_sync ==
    /\ control.pc = "up" /\ Len(sync_tasks) < MaxTasks
    /\ sync_tasks' = Append(sync_tasks, [pc |-> "scheduled", status |-> "pending",
                                          migration |-> "running"])
    /\ UNCHANGED control
    /\ TaskFrame

\* run_sync_task starts: update_task(task_id, "running")
TaskBegin(t) ==
    /\ control.pc = "up" /\ t <= Len(sync_tasks) /\ sync_tasks[t].pc = "scheduled"
    /\ Move(t, "running", "running", sync_tasks[t].migration)

\* the clients are built, the sync runs and its results are stored; an
\* exception of any of these leaves the try block
TaskSync(t, ok) ==
    /\ control.pc = "up" /\ t <= Len(sync_tasks) /\ sync_tasks[t].pc = "running"
    /\ Move(t, IF ok THEN "synced" ELSE "raised", sync_tasks[t].status,
            sync_tasks[t].migration)

\* update_migration(migration_id, ..., status="completed", ...)
TaskSaveMigration(t) ==
    /\ control.pc = "up" /\ t <= Len(sync_tasks) /\ sync_tasks[t].pc = "synced"
    /\ Move(t, "finalized", sync_tasks[t].status, "completed")

\* update_task(task_id, "completed", report)
TaskComplete(t) ==
    /\ control.pc = "up" /\ t <= Len(sync_tasks) /\ sync_tasks[t].pc = "finalized"
    /\ Move(t, "done", "completed", sync_tasks[t].migration)

\* except Exception: update_task(task_id, "failed", {"error": str(e)})
TaskFail(t) ==
    /\ control.pc = "up" /\ t <= Len(sync_tasks) /\ sync_tasks[t].pc = "raised"
    /\ Move(t, "failed", "failed", sync_tasks[t].migration)

\* update_migration(migration_id, status="failed", ...)
TaskFailMigration(t) ==
    /\ control.pc = "up" /\ t <= Len(sync_tasks) /\ sync_tasks[t].pc = "failed"
    /\ Move(t, "done", sync_tasks[t].status, "failed")

\* one step of the coroutine of task t
TaskStep(t) ==
    \/ TaskBegin(t)
    \/ \E ok \in BOOLEAN : TaskSync(t, ok)
    \/ TaskSaveMigration(t)
    \/ TaskComplete(t)
    \/ TaskFail(t)
    \/ TaskFailMigration(t)

\* the process stops (crash, kill, shutdown): the coroutines that have not
\* returned are gone, the storage keeps what was committed
ProcessStop ==
    /\ control.pc = "up"
    /\ control' = [pc |-> "down"]
    /\ sync_tasks' = [t \in 1..Len(sync_tasks) |->
                         [sync_tasks[t] EXCEPT !.pc = IF @ = "done" THEN @
                                                      ELSE "dead"]]
    /\ TaskFrame

\* application start-up: init_db, then cleanup_stale_tasks
lifespan ==
    /\ control.pc = "down"
    /\ control' = [pc |-> "up"]
    /\ sync_tasks' = cleanup_stale_tasks(sync_tasks)
    /\ TaskFrame

TaskInit ==
    /\ profile = "all_new"
    /\ ledger = {}
    /\ qobuz_favorites = InitialFavorites(profile)
    /\ DriverFresh
    /\ MatcherIdle
    /\ PlaylistFresh(<<>>)
    /\ StorageFresh
    /\ ArtistFresh
    /\ RequestFresh
    /\ unmatched_tracks = {}
    /\ sync_tasks = <<>>
    /\ control = [pc |-> "up"]
    /\ rate_limiter = [delay |-> 0]
    /\ workers = <<>>

TaskNext ==
    \/ start_sync
    \/ \E t \in TaskIds : TaskBegin(t)
    \/ \E t \in TaskIds, ok \in BOOLEAN : TaskSync(t, ok)
    \/ \E t \in TaskIds : TaskSaveMigration(t)
    \/ \E t \in TaskIds : TaskComplete(t)
    \/ \E t \in TaskIds : TaskFail(t)
    \/ \E t \in TaskIds : TaskFailMigration(t)
    \/ ProcessStop
    \/ lifespan

SpecTasks == TaskInit /\ [][TaskNext]_vars

\* the event loop runs every coroutine that is ready, and each of its awaits
\* returns or raises: while the process is up, a task that can step does
SpecTasksLive == SpecTasks /\ \A t \in TaskIds : WF_vars(TaskStep(t))

----------------------------------------------------------------------------
(* Claims about the match decision engine (checked under SpecMatcher) *)

FuzzyKinds == {"fuzzy", "fuzzy_album", "fuzzy_clean", "fuzzy_primary", "fuzzy_title"}

\* C1 - exact-key precedence: as soon as search_by_isrc has examined an item
\* whose ISRC equals the source ISRC ignoring case, the engine has returned a
\* MatchResult of kind 'isrc' with score 100 for that item's query and an
\* empty suggestion list, and no later stage has issued a query.
C1_ExactKeyPrecedence ==
    (examined_isrc # "" /\ Upper(examined_isrc) = Upper(spotify_track.isrc))
        => /\ stage = "done"
           /\ result.match_type = "isrc"
           /\ result.score = 1000
           /\ suggestions = <<>>
           /\ \A i \in 1..Len(queries) : queries[i] \in IsrcStages

\* an ISRC match differing in case, on an item of low title score whose
\* duration is far outside the tolerance
C1_Witness ==
    /\ examined_isrc = "USRC1" /\ spotify_track.isrc = "usrc1"
    /\ result.match_type = "isrc"
    /\ result.qobuz_track.title_score = 30
    /\ Abs(spotify_track.duration - result.qobuz_track.duration) > 30000

\* C2 - duration gate: a MatchResult of a fuzzy kind never carries a
\* candidate whose duration differs from the source's by more than the
\* tolerance of the source's length bucket (3000 / 5000 / 10000 / 30000 ms).
C2_DurationGate ==
    result.match_type \in FuzzyKinds
        => LET d == spotify_track.duration
               delta == Abs(d - result.qobuz_track.duration)
           IN  /\ d < 120000 => delta <= 3000
               /\ (d >= 120000 /\ d < 240000) => delta <= 5000
               /\ (d >= 240000 /\ d < 480000) => delta <= 10000
               /\ d >= 480000 => delta <= 30000

\* the best-scored primary candidate clears MIN_COMBINED_SCORE but is 5001 ms
\* off a 239999 ms track, every stage has run and nothing was accepted
C2_Witness ==
    /\ stage = "done" /\ result = NoResult
    /\ spotify_track.duration = 239999
    /\ scored_candidates # <<>>
    /\ scored_candidates[1].score >= 780
    /\ scored_candidates[1].duration_diff = 5001
    /\ "alt_title" \in {queries[i] : i \in 1..Len(queries)}

\* C8 - a failed search request never escapes the engine: the stage whose
\* request failed ends as a stage that received no candidate (no result, the
\* next stage's query issued, or the suggestions built when it was the last
\* stage), and the engine is either done or able to take a further step.
C8_RetrievalErrorSwallowed ==
    /\ ~raised /\ stage # "raised"
    /\ stage = "done" \/ ENABLED MatcherNext
    /\ failed # "none" =>
          /\ result = NoResult
          /\ consumed = 0
          /\ stage = (IF failed \in IsrcStages THEN "primary"
                      ELSE AfterStage(failed, spotify_track))
          /\ failed = "primary" => scored_candidates = <<>>
          /\ stage # "done" => queries[Len(queries)] = stage
          /\ stage = "done" => suggestions = BuildSuggestions(scored_candidates)

\* the key query, the primary query and the last fallback query have been
\* issued, the last one failed, and the engine returned (None, suggestions)
C8_Witness ==
    /\ stage = "done" /\ failed = "alt_title" /\ result = NoResult
    /\ queries[1] = "isrc_key"
    /\ Len(queries) >= 4
    /\ suggestions # <<>>

\* C10 - suggestion floor: every entry of the returned suggestion list has
\* artist_score >= 50 and combined score >= 40.
C10_SuggestionFloor ==
    \A i \in 1..Len(suggestions) :
        /\ suggestions[i].artist_score >= 500
        /\ suggestions[i].score >= 400

\* a candidate of title score 100 and artist score 40 was in the primary
\* pool, no stage accepted, a suggestion was returned and it is not that one
C10_Witness ==
    /\ stage = "done" /\ result = NoResult /\ suggestions # <<>>
    /\ \E i \in 1..Len(scored_candidates) :
          /\ scored_candidates[i].title_score = 1000
          /\ scored_candidates[i].artist_score = 400
          /\ scored_candidates[i].score >= 400
          /\ \A j \in 1..Len(suggestions) :
                suggestions[j].qobuz_id # scored_candidates[i].candidate.id

\* C11 - one outcome per resolution attempt: a MatchResult is never returned
\* together with a non-empty suggestion list, and a non-empty suggestion list
\* is only held by an engine that has returned without any stage accepting.
C11_OneOutcome ==
    /\ result # NoResult => suggestions = <<>>
    /\ suggestions # <<>> => (stage = "done" /\ result = NoResult)

\* a fallback stage accepted while the primary pool holds candidates that
\* qualify as suggestions: the suggestion list returned is empty
C11_Witness ==
    /\ stage = "done"
    /\ result.match_type \in FuzzyKinds \ {"fuzzy"}
    /\ BuildSuggestions(scored_candidates) # <<>>
    /\ suggestions = <<>>

\* the primary stage has taken its decision
PrimaryDecided == stage \in AltStages \cup {"alt_title", "done"} /\ result.match_type # "isrc"

\* entries of scored_candidates that stem from candidates identical in
\* title, artist and album
Twins(a, b) ==
    /\ a.title_score = b.title_score
    /\ a.artist_score = b.artist_score
    /\ a.candidate.album_score = b.candidate.album_score
    /\ a.score = b.score

\* C12 - duration preference: when the best-scored candidates of the primary
\* search are twins at or above MIN_COMBINED_SCORE that differ in duration
\* delta and one of them is within tolerance, the primary stage accepts the
\* twin of the smallest delta, whatever the order of the response.
C12_DurationPreference ==
    LET sc == scored_candidates
        tol == _get_duration_tolerance(spotify_track.duration)
        top == {i \in 1..Len(sc) : Twins(sc[i], sc[1])}
    IN  (/\ PrimaryDecided /\ sc # <<>>
         /\ sc[1].score >= MIN_COMBINED_SCORE * 10
         /\ \E i \in top : sc[i].duration_diff <= tol)
           => /\ result.match_type = "fuzzy"
              /\ \A i \in top :
                    DurationDiff(spotify_track, result.qobuz_track) <= sc[i].duration_diff

\* C22 - exact-key lookup returns exact matches only: a MatchResult of kind
\* 'isrc' carries the item search_by_isrc examined last, and that item has
\* an ISRC equal to the source ISRC ignoring case; a lookup whose request
\* failed, or that found no such item in either response, yields no result.
C22_ExactKeyOnly ==
    /\ result.match_type = "isrc" =>
          /\ examined_isrc # ""
          /\ Upper(examined_isrc) = Upper(spotify_track.isrc)
          /\ queries[Len(queries)] \in IsrcStages
    /\ failed \in IsrcStages => result = NoResult
    /\ (stage \in IsrcStages \/ queries[Len(queries)] \notin IsrcStages)
          => result.match_type # "isrc"

\* both responses were scanned to their end, the item examined last carries
\* another ISRC or none, and the lookup has returned nothing
C22_Witness ==
    /\ stage = "isrc_hint" /\ consumed = MaxCands
    /\ examined_isrc \in {"", "USRC2"}
    /\ result = NoResult

\* the position of a query in the fixed order of the stages
StageRank(s) ==
    CASE s = "isrc_key" -> 1
      [] s = "isrc_hint" -> 2
      [] s = "primary" -> 3
      [] s = "alt_album" -> 4
      [] s = "alt_clean" -> 5
      [] s = "alt_primary" -> 6
      [] s = "alt_title" -> 7
      [] OTHER -> 8

\* the stages that return a MatchResult of a kind
StagesOfKind(type) ==
    CASE type = "isrc" -> IsrcStages
      [] type = "fuzzy" -> {"primary"}
      [] type = "fuzzy_album" -> {"alt_album"}
      [] type = "fuzzy_clean" -> {"alt_clean"}
      [] type = "fuzzy_primary" -> {"alt_primary"}
      [] type = "fuzzy_title" -> {"alt_title"}
      [] OTHER -> {}

\* C25 - stage order and short-circuit: the queries of one track are issued
\* in the order exact-key, primary, album, cleaned, primary-artist,
\* title-only; once a stage has accepted a candidate the engine has returned,
\* the query issued last is that stage's, and no suggestion was computed.
C25_StageOrder ==
    /\ \A i \in 1..Len(queries) : \A j \in 1..Len(queries) :
          i < j => StageRank(queries[i]) < StageRank(queries[j])
    /\ result # NoResult =>
          /\ stage = "done"
          /\ queries[Len(queries)] \in StagesOfKind(result.match_type)
          /\ suggestions = <<>>

\* the album stage accepted after the exact-key and the primary stage ran;
\* the track has two more stages to go and the primary pool holds a
\* candidate that qualifies as a suggestion
C25_Witness ==
    /\ stage = "done" /\ result.match_type = "fuzzy_album"
    /\ queries = <<"isrc_key", "isrc_hint", "primary", "alt_album">>
    /\ spotify_track.clean_differs /\ spotify_track.featured
    /\ BuildSuggestions(scored_candidates) # <<>>

\* the queries a track must have seen fail before the title-only query
StagesBeforeTitle(t) ==
    (IF t.isrc # "" THEN {"isrc_key"} ELSE {})
        \cup {"primary"}
        \cup (IF t.has_album THEN {"alt_album"} ELSE {})
        \cup (IF t.clean_differs THEN {"alt_clean"} ELSE {})
        \cup (IF t.featured THEN {"alt_primary"} ELSE {})

\* C30 - the title-only last resort is strict: a MatchResult of kind
\* 'fuzzy_title' carries a candidate of title score >= 92, artist score
\* >= 40 and duration delta <= 3000 ms, and the exact-key, primary, album,
\* cleaned and primary-artist queries that apply to the track were all
\* issued before and accepted nothing.
C30_TitleOnlyStrict ==
    result.match_type = "fuzzy_title" =>
        /\ result.qobuz_track.title_score >= 92
        /\ result.qobuz_track.artist_direct >= 40
        /\ Abs(spotify_track.duration - result.qobuz_track.duration) <= 3000
        /\ result.score = result.qobuz_track.title_score * 7
                             + result.qobuz_track.artist_direct * 3
        /\ StagesBeforeTitle(spotify_track)
              \subseteq {queries[i] : i \in 1..Len(queries) - 1}
        /\ queries[Len(queries)] = "alt_title"

\* a title-only match at the artist floor for a track that went through
\* all six stages
C30_Witness ==
    /\ result.match_type = "fuzzy_title"
    /\ result.qobuz_track.artist_direct = 40
    /\ queries = <<"isrc_key", "isrc_hint", "primary", "alt_album", "alt_clean",
                   "alt_primary", "alt_title">>

----------------------------------------------------------------------------
(* Claims about the reconciliation driver (checked under Spec) *)

\* a favourites / albums task has returned its report after the loop ran to
\* the end of the stream, and the task before it was one of the same kind
\* that completed, wrote for real and was persisted
SecondRunDone ==
    /\ pc = "returned" /\ sync_type = "favorites" /\ ~dry_run
    /\ HowEnded(report) = "completed"
    /\ last_run.how = "completed" /\ last_run.sync_type = "favorites"
    /\ ~last_run.dry_run

C4_ResumeSkip ==
    (pc \in {"stream", "returned"} /\ sync_type = "favorites") =>
        /\ already_synced \cap (fast_path_checks \cup matcher_calls) = {}
        /\ \A k \in 1..Len(pending_favorites) :
              pending_favorites[k].spotify_id \notin already_synced
        /\ Flushed \cap already_synced = {}
        /\ SyncedIds(report) \cap already_synced = {}
        /\ SeqRange(report.missing_tracks) \cap already_synced = {}
        /\ report.tracks_skipped = Cardinality(handled \cap already_synced)
        /\ report.tracks_matched + report.tracks_not_matched
              = Cardinality(handled \ already_synced)
        /\ report.tracks_already_in_qobuz <= report.tracks_matched

\* a run over a partly recorded library: some items skipped, the others
\* matched and written
C4_Witness ==
    /\ pc = "returned" /\ sync_type = "favorites"
    /\ handled \cap already_synced # {}
    /\ handled \ already_synced # {}
    /\ report.tracks_skipped > 0
    /\ calls # <<>>

\* C5 - resume after a crash: when a non-dry run stopped after a write-back
\* call, the source items that call carried are in the ledger, and the next
\* run does not hand them to the matching engine.
C5_ResumeAfterCrash ==
    (/\ last_run.how = "crashed" /\ last_run.sync_type = "favorites"
     /\ ~last_run.dry_run /\ last_run.flushed # {})
        => /\ last_run.flushed \subseteq ledger
           /\ (pc \in {"stream", "returned"} /\ sync_type = "favorites")
                 => last_run.flushed \cap matcher_calls = {}

\* C6 - cooperative cancellation: a run that observed the cancellation flag
\* returns a completed report noting 'Cancelled by user', has handled no
\* item beyond those pulled, and (non-dry-run) has left no confirmed match
\* queued and unwritten.
C6_CooperativeCancellation ==
    (/\ pc = "returned" /\ sync_type = "favorites"
     /\ "Cancelled by user" \in SeqRange(report.errors))
        => /\ report.completed_at
           /\ handled \subseteq 1..track_index
           /\ ~dry_run => pending_favorites = <<>>

\* C7 - a run always completes with a report: a returned report has
\* completed_at set whatever failed (a collaborator, an item, a cancelled
\* run); inside the loop the stream position is within the stream, so the
\* guard of the next iteration or of the loop's end holds, and every step of
\* the loop advances the position or is the one raising of the cancellation
\* flag, so the loop ends; the only ways out of the loop are the returned
\* report and the stop of the process.
C7_AlwaysReport ==
    /\ [](/\ pc \in {"idle", "stream", "playlists", "returned"}
          /\ pc = "returned" => report.completed_at
          /\ pc = "stream" => track_index <= NumItems
          /\ pc = "playlists" => track_index <= NumPlaylists)
    /\ [][/\ (pc \in {"stream", "playlists"} /\ pc' = pc)
                => \/ track_index' = track_index + 1
                   \/ (cancelled' /\ ~cancelled /\ track_index' = track_index)
          /\ (pc \in {"stream", "playlists"} /\ pc' # pc)
                => \/ pc' = "returned" /\ report'.completed_at
                   \/ pc' = "idle" /\ last_run'.how = "crashed"]_vars

\* a cancelled run whose remaining batch held a malformed item: both notes
\* are in the report, which is completed
C7_Witness ==
    /\ pc = "returned" /\ sync_type = "favorites"
    /\ report.completed_at
    /\ report.errors = <<"Cancelled by user", "item error">>

\* C9 - batched write-back: no write-back call carries more than
\* FAVORITE_BATCH ids, and a completed run that wrote N ids made
\* ceil(N / FAVORITE_BATCH) calls.
C9_BatchedWriteBack ==
    /\ \A k \in 1..Len(calls) : Len(calls[k]) <= FAVORITE_BATCH
    /\ (/\ pc = "returned" /\ sync_type = "favorites" /\ ~dry_run
        /\ HowEnded(report) = "completed")
          => Len(calls) = (Cardinality(Flushed) + FAVORITE_BATCH - 1) \div FAVORITE_BATCH

\* C14 - per-item error isolation: a run whose only failure is an item whose
\* processing raised has noted the error, has processed every other item of
\* the stream and (non-dry-run) has written back every confirmed match.
C14_ItemErrorIsolation ==
    (/\ pc = "returned" /\ sync_type = "favorites"
     /\ report.errors = <<"item error">>)
        => /\ handled = {i \in 1..NumItems : ItemKind(profile, i) # "error"}
           /\ ~dry_run => pending_favorites = <<>>

\* the items of the stream that are not in the ledger and whose exact key is
\* a key of the pre-fetched map
AlreadyPresent ==
    LET keys == MapKeys(qobuz_isrc_map)
    IN  {i \in 1..NumItems :
            /\ i \notin already_synced
            /\ SourceKey(profile, i) # 0
            /\ SourceKey(profile, i) \in keys}

\* C15 - already-present short-circuit: an item outside the ledger whose
\* exact key is a key of the pre-fetched map is never handed to the matching
\* engine, no write-back is queued or sent for it, it is not listed as newly
\* synced, and each such item handled adds one to tracks_already_in_qobuz.
C15_AlreadyPresent ==
    (pc \in {"stream", "returned"} /\ sync_type = "favorites") =>
        LET present == AlreadyPresent
        IN  /\ present \cap matcher_calls = {}
            /\ \A k \in 1..Len(pending_favorites) :
                  pending_favorites[k].spotify_id \notin present
            /\ Flushed \cap present = {}
            /\ SyncedIds(report) \cap present = {}
            /\ report.tracks_already_in_qobuz = Cardinality(present \cap handled)

\* a completed run over the mixed library with the pre-fetch succeeded: some
\* items were recognised by key, others were searched and written
C15_Witness ==
    /\ pc = "returned" /\ sync_type = "favorites" /\ profile = "mixed"
    /\ prefetched /\ HowEnded(report) = "completed"
    /\ AlreadyPresent \cap handled # {}
    /\ report.tracks_already_in_qobuz > 0
    /\ matcher_calls # {}
    /\ calls # <<>>

----------------------------------------------------------------------------
(* Claims about a single run (checked under SpecRun) *)

\* what a run does to the target and hands back to its caller
Outcome(st) ==
    [report |-> st.report, calls |-> st.calls, notified |-> st.notified,
     pending_favorites |-> st.pending_favorites,
     existing_favorites |-> st.existing_favorites,
     qobuz_favorites |-> st.qobuz_favorites, exc |-> st.exc]

\* the run's state as it is without a progress callback
Quiet(st) == [st EXCEPT !.callback = FALSE, !.progress.delivered = 0]

\* the next iteration of the loop that completes a batch, from state st
NextFullBatch(st, ok) ==
    FullBatch(IF track_index = 0
              THEN progress_update(st, [total_tracks |-> NumItems]) ELSE st,
              Append(batch, track_index + 1), ok)

NonEmptyPlaylists == {k \in 1..NumPlaylists : PlaylistTracks(k) # <<>>}

\* C13 - dry run changes nothing: in a dry run no driver makes a write call
\* (add_favorite_tracks_batch / add_favorite_albums_batch, create_playlist,
\* add_track, add_favorite_track), the synced callback is never called and
\* the target is as it was; the items are still matched and counted.
C13_DryRunChangesNothing ==
    /\ (pc \in {"stream", "returned"} /\ sync_type = "favorites" /\ dry_run) =>
          /\ calls = <<>> /\ notified = <<>>
          /\ qobuz_favorites = InitialFavorites(profile)
          /\ report.tracks_skipped + report.tracks_matched
                + report.tracks_not_matched = Cardinality(handled)
          /\ (pc = "returned" /\ HowEnded(report) = "completed")
                => handled = 1..NumItems
    /\ (pl_pc # "idle" /\ pl_cfg.dry_run) =>
          /\ pl_calls = <<>>
          /\ qobuz_playlists = pl_cfg.playlists_at_start
          /\ qobuz_favorites = pl_cfg.favorites_at_start
          /\ (pl_pc = "done" /\ pl_report.errors = <<>>) =>
                IF pl_cfg.driver = "cli_favorites"
                THEN pl_report.tracks_matched + pl_report.already_favorited
                        + pl_report.tracks_not_matched = Len(PlaylistTracks(1))
                ELSE /\ pl_report.playlists_synced = NumPlaylists
                     /\ pl_report.tracks_matched = 3 * Cardinality(NonEmptyPlaylists)
                     /\ pl_report.tracks_not_matched = Cardinality(NonEmptyPlaylists)

\* a completed dry run of the streaming driver with a synced callback: more
\* than a flush threshold of matches are queued, nothing was sent
C13_Witness ==
    /\ pc = "returned" /\ sync_type = "favorites" /\ dry_run /\ on_track_synced
    /\ HowEnded(report) = "completed"
    /\ Len(pending_favorites) >= FAVORITE_BATCH
    /\ report.tracks_matched > 0

SetupErrors == {"Failed to load credentials", "Authentication failed"}

\* C17 - fatal setup errors abort before any work: a failure of
\* load_credentials or authenticate_clients is the single entry of
\* report.errors, it is raised to the caller (the invocation ends there), and
\* no playlist was listed, no track matched and nothing written.
C17_FatalSetupAbort ==
    /\ SeqRange(pl_report.errors) \cap SetupErrors # {} => pl_pc = "setup_failed"
    /\ pl_pc = "setup_failed" =>
          /\ Len(pl_report.errors) = 1
          /\ pl_report.errors[1] \in SetupErrors
          /\ pl_reads = {}
          /\ pl_calls = <<>>
          /\ qobuz_playlists = pl_cfg.playlists_at_start
          /\ pl_report.playlists_synced = 0
          /\ pl_report.tracks_matched = 0 /\ pl_report.tracks_not_matched = 0

\* the second invocation fails to authenticate, after a first one that
\* wrote to the target
C17_Witness ==
    /\ pl_pc = "setup_failed" /\ pl_runs = 2
    /\ pl_report.errors = <<"Authentication failed">>
    /\ pl_cfg.playlists_at_start # <<>>
    /\ pl_cfg.playlists_at_start[1].tracks # <<>>

\* C18 - add-if-absent: in update mode (not dry-run) add_track is only
\* called for a track that was not among the tracks fetched from the target
\* playlist and that is not in the target playlist when the call is made.
C18_AddIfAbsent ==
    (pl_cfg.driver \in {"cli", "web"} /\ pl_cfg.update_existing /\ ~pl_cfg.dry_run)
        => \A i \in 1..Len(pl_calls) :
              pl_calls[i].op = "add_track"
                  => (~pl_calls[i].fetched /\ ~pl_calls[i].present)

\* C19 - create-if-missing: in update mode create_playlist is only called
\* when the target holds no playlist of the derived name and never for a
\* source playlist without tracks; as long as every invocation ran in update
\* mode the target holds at most one playlist of each derived name.
C19_CreateIfMissing ==
    /\ (pl_cfg.driver \in {"cli", "web"} /\ pl_cfg.update_existing)
          => \A i \in 1..Len(pl_calls) :
                pl_calls[i].op = "create_playlist"
                    => /\ ~pl_calls[i].present
                       /\ PlaylistTracks(pl_calls[i].playlist[1]) # <<>>
    /\ pl_cfg.only_update
          => \A k \in 1..NumPlaylists :
                Cardinality(Named(qobuz_playlists, DerivedName(k))) <= 1


----------------------------------------------------------------------------
(* Claims about the sync ledger (checked under SpecStorage) *)

\* C20 - the ledger is keyed by sync type: marking a source id as synced for
\* one sync type leaves get_synced_track_ids and is_track_synced of every
\* other sync type as they were.
C20_LedgerKeyedByType ==
    [][last_op'.op = "mark" =>
          \A type \in SyncTypes \ {last_op'.sync_type} :
              /\ get_synced_track_ids(synced_tracks', type)
                    = get_synced_track_ids(synced_tracks, type)
              /\ \A x \in SourceIds :
                    is_track_synced(synced_tracks', x, type)
                        = is_track_synced(synced_tracks, x, type)]_vars

----------------------------------------------------------------------------
(* Claims about the scores of the engine (checked under SpecScore) *)

\* C21 - confidence is bounded: the score of every MatchResult, every
\* combined score computed for a candidate and every score of a suggestion
\* lies in [0, 100] (in tenths: 0..1000), with the album bonus, the
\* compilation penalty and the weighting of the title-only stage applied.
C21_ConfidenceBounded ==
    /\ result.score \in 0..1000
    /\ \A i \in 1..Len(scored_candidates) : scored_candidates[i].score \in 0..1000
    /\ \A i \in 1..Len(suggestions) :
          /\ suggestions[i].score \in 0..1000
          /\ suggestions[i].title_score \in 0..1000
          /\ suggestions[i].artist_score \in 0..1000

\* no stage accepted; a candidate of similarities 100 / 100 with an album
\* bonus is a suggestion of score 100, and a candidate of similarities 0 / 0
\* on a compilation was scored 0
C21_Witness ==
    /\ stage = "done" /\ result = NoResult /\ spotify_track.has_album
    /\ ~spotify_track.compilation
    /\ \E i \in 1..Len(suggestions) : suggestions[i].score = 1000
    /\ \E i \in 1..Len(scored_candidates) :
          /\ scored_candidates[i].score = 0
          /\ scored_candidates[i].candidate.compilation

----------------------------------------------------------------------------
(* Claims about the suggestion stage (checked under SpecRank) *)

\* an entry of the primary pool that clears both suggestion floors
PassesFloors(sc) ==
    /\ sc.score >= SUGGESTION_THRESHOLD * 10
    /\ sc.artist_score >= MIN_ARTIST_SCORE_FOR_SUGGESTION * 10

\* C29 - suggestion ranking: when no stage accepts, the suggestion list is
\* made of the first min(5, k) of the k entries of the primary pool that
\* clear both floors, in descending order of combined score, whatever the
\* number of candidates of the response.
C29_SuggestionRanking ==
    (stage = "done" /\ result = NoResult) =>
        LET ranked == SelectSeq(scored_candidates, PassesFloors)
        IN  /\ Len(suggestions) = Min(5, Len(ranked))
            /\ \A i \in 1..Len(suggestions) :
                  suggestions[i] = Suggestion(ranked[i])

----------------------------------------------------------------------------
(* Claims about FavoriteSyncService.sync_favorites (checked under SpecFav) *)

\* C23 - classification and isolation: when sync_favorites returns, every
\* saved track is counted in exactly one of already favourited, matched,
\* not found and failed, so that the four counters add up to the number of
\* saved tracks; a track whose processing raised is counted as failed and
\* nothing else, no write call was made for a track whose search raised,
\* and the tracks after it were still processed.
C23_ClassifiedAndIsolated ==
    (pl_pc = "done" /\ pl_cfg.driver = "cli_favorites" /\ pl_cfg.outcome # <<>>) =>
        LET tracks == SeqRange(PlaylistTracks(1))
            raised_in_search == {t \in tracks : pl_cfg.outcome[t] = "search_raises"}
            troubled == {t \in tracks : pl_cfg.outcome[t] # "ok"}
            quiet == tracks \ raised_in_search
        IN  /\ pl_report.already_favorited + pl_report.tracks_matched
                  + pl_report.tracks_not_matched + pl_report.failed
                  = Len(PlaylistTracks(1))
            /\ pl_report.failed >= Cardinality(raised_in_search)
            /\ pl_report.failed <= Cardinality(troubled)
            /\ pl_report.tracks_not_matched
                  = Cardinality({t \in quiet : PlTarget(t) = 0})
            /\ Len(pl_calls) <= Cardinality({t \in quiet : PlTarget(t) # 0})
            /\ pl_report.finalized

\* the search raises for the second saved track only: one failure, and the
\* tracks after it are favourited or found missing
C23_Witness ==
    /\ pl_pc = "done" /\ pl_cfg.driver = "cli_favorites"
    /\ pl_cfg.outcome = <<"ok", "search_raises", "ok", "ok">>
    /\ pl_report.failed = 1
    /\ pl_report.tracks_matched = 2
    /\ pl_report.tracks_not_matched = 1
    /\ Len(pl_calls) = 2

----------------------------------------------------------------------------
(* Claims about _extract_featured_artists (checked under SpecArtist) *)

----------------------------------------------------------------------------
(* Claims about the threads of a streaming sync *)

\* C26 - write ordering across batches: when the items of a batch start
\* being matched, every new match found in the batch two before it, and in
\* the batches before that one, has been handed to a write-back call.
C26_WriteOrdering ==
    control.pc = "matching" =>
        \A b \in 1..(control.batch_no - 2) : control.pending[b] = 0

\* C27 - the write-back does not block the next batch: while the
\* write-back call made after a batch is in progress, the control thread
\* can hand the next batch to the worker pool.
C27_WriteBackDoesNotBlock ==
    (control.pc = "flushing" /\ ~control.final /\ control.batch_no < MaxBatches) =>
        ENABLED (\E size \in BatchSizes : DispatchBatch(size))

\* C28 - no unprotected shared mutable state among workers: on the request
\* path every worker takes, no two workers are at the same time between
\* the read and the write of the same field of the shared rate limiter,
\* and no update of its counters is lost: once the workers are idle,
\* rate_limited_count is the number of rate-limit answers received.
C28_NoUnprotectedSharedState ==
    /\ \A v, w \in Workers :
          (v # w /\ workers[v].pc \in {"success_store", "rate_limit_store"})
              => workers[w].pc # workers[v].pc
    /\ (\A w \in Workers : workers[w].pc = "idle") =>
          rate_limiter.rate_limited_count = control.rate_limits

----------------------------------------------------------------------------
(* Claims about QobuzClient._make_request (checked under SpecRequest) *)

\* C31 - bounded retry: a call of _make_request makes at most
\* max_retries + 1 HTTP attempts; the waits between its attempts double
\* from one failed attempt to the next; when it gives up it raises and the
\* search wrapper returns its empty result.
C31_BoundedRetry ==
    /\ Len(request.answers) <= MAX_RETRIES + 1
    /\ \A i \in 1..(Len(request.sleeps) - 1) :
          request.sleeps[i + 1] = 2 * request.sleeps[i]
    /\ request.pc = "done" =>
          /\ request.raised <=> request.answers[Len(request.answers)] # 200
          /\ request.raised => request.result = "empty"

\* C32 - client errors are not retried: an answer with a 4xx status other
\* than 429 is the last attempt of the call, which raises without having
\* slept after it.
C32_ClientErrorNotRetried ==
    \A i \in 1..Len(request.answers) :
        request.answers[i] = 404 =>
            /\ i = Len(request.answers)
            /\ request.pc = "done" /\ request.raised
            /\ Len(request.sleeps) < i

----------------------------------------------------------------------------
(* Claims about AdaptiveRateLimiter called by one thread (SpecDelay) *)

\* C40 - rate limiter bounds: after any sequence of on_success and
\* on_rate_limit calls the delay lies between initial_delay and max_delay;
\* a call that raises the delay is an on_rate_limit call, and a call that
\* lowers it is the on_success call that completes at least ten successes
\* in a row since the last rate limit or the last speed-up.
C40_DelayBounds ==
    [][/\ rate_limiter.initial_delay <= rate_limiter'.delay
       /\ rate_limiter'.delay <= rate_limiter.max_delay
       /\ rate_limiter'.delay > rate_limiter.delay => control'.last = "on_rate_limit"
       /\ rate_limiter'.delay < rate_limiter.delay =>
             /\ control'.last = "on_success"
             /\ control.streak + 1 >= 10]_vars

\* a limiter of 50 ms slowed down to 100 ms by one rate limit and sped up
\* to 80 ms by its tenth success in a row
C40_Witness ==
    /\ control.pc = "calls" /\ control.last = "on_success"
    /\ rate_limiter.initial_delay = 50
    /\ rate_limiter.delay = 80
    /\ rate_limiter.rate_limited_count = 1
    /\ control.calls = 11

\* C33 - ledger soundness: a source item is reported as synced (handed to
\* the synced callback; listed in the synced list of a returned non-dry-run
\* report; in the ledger written from that list) only if its target id is
\* among the target's favourites, i.e. it was there before the run or a
\* write-back call that carried it succeeded.
C33_LedgerSoundness ==
    /\ \A k \in 1..Len(notified) :
          TargetOf(profile, notified[k]) \in qobuz_favorites
    /\ (pc = "returned" /\ sync_type = "favorites" /\ ~dry_run)
          => \A k \in 1..Len(report.synced_tracks) :
                report.synced_tracks[k].qobuz_id \in qobuz_favorites
    /\ \A i \in ledger : TargetOf(profile, i) \in qobuz_favorites

\* C34 - nothing stays queued: whenever a non-dry-run favourites sync has
\* returned its report, however it ended, the queue of confirmed matches is
\* empty, every target id that was queued has been carried by a write-back
\* call, and so has every entry of the synced list whose target was not
\* among the pre-fetched favourites.
C34_NothingStaysQueued ==
    (pc = "returned" /\ sync_type = "favorites" /\ ~dry_run)
        => /\ pending_favorites = <<>>
           /\ \A k \in 1..Len(report.synced_tracks) :
                 \/ report.synced_tracks[k].qobuz_id \in MapValues(qobuz_isrc_map)
                 \/ \E c \in 1..Len(calls) : \E j \in 1..Len(calls[c]) :
                       calls[c][j].qobuz_id = report.synced_tracks[k].qobuz_id

\* the (call, position) pairs of the write-back calls of the current run
SentPositions == UNION {{<<c, j>> : j \in 1..Len(calls[c])} : c \in 1..Len(calls)}

\* C35 - no duplicate write within a run: over the write-back calls of one
\* favourites run and its queue, no target id occurs twice, and none of them
\* is an id of the pre-fetched favourites, also when several source items
\* resolve to the same target.
C35_NoDuplicateWrite ==
    (pc \in {"stream", "returned"} /\ sync_type = "favorites")
        => /\ \A p \in SentPositions, q \in SentPositions :
                 p # q => calls[p[1]][p[2]].qobuz_id # calls[q[1]][q[2]].qobuz_id
           /\ \A p \in SentPositions :
                 /\ calls[p[1]][p[2]].qobuz_id \notin MapValues(qobuz_isrc_map)
                 /\ \A k \in 1..Len(pending_favorites) :
                       pending_favorites[k].qobuz_id # calls[p[1]][p[2]].qobuz_id
           /\ \A k \in 1..Len(pending_favorites) :
                 /\ pending_favorites[k].qobuz_id \notin MapValues(qobuz_isrc_map)
                 /\ \A l \in 1..Len(pending_favorites) :
                       k # l => pending_favorites[k].qobuz_id # pending_favorites[l].qobuz_id

\* a completed non-dry-run over the mixed library with the favourites
\* pre-fetched: two source items resolved to the same target, which was
\* sent, and a fuzzy match resolved to a pre-fetched favourite
C35_Witness ==
    /\ pc = "returned" /\ sync_type = "favorites" /\ ~dry_run /\ prefetched
    /\ profile = "mixed" /\ HowEnded(report) = "completed"
    /\ \E i \in handled :
          /\ ItemKind(profile, i) = "twin" /\ i - 1 \in handled
          /\ \E p \in SentPositions : calls[p[1]][p[2]].qobuz_id = TargetOf(profile, i)
    /\ \E i \in handled :
          /\ ItemKind(profile, i) = "in_favs"
          /\ TargetOf(profile, i) \in MapValues(qobuz_isrc_map)
          /\ i \in SyncedIds(report)

C37_FallbackReturnsBest ==
    [][\A items \in Responses :
          (AltResponse(items) /\ result' # NoResult)
              => \A k \in 1..Len(items) :
                    AltPasses(spotify_track, Candidate(items[k]))
                        => _score_candidate(spotify_track, Candidate(items[k]))
                               <= result'.score]_vars

\* C38 - a dismissal is durable: a step in which a sync run stores its
\* results never returns a row of status 'dismissed' to status 'pending'.
C38_DismissalDurable ==
    [][\A type \in ReviewTypes, dry \in BOOLEAN, matched \in SUBSET SourceIds,
          missing \in SUBSET SourceIds :
          RunSyncTask(type, dry, matched, missing)
              => \A spotify_id \in SourceIds, t \in ReviewTypes :
                    UnmatchedStatus(unmatched_tracks, spotify_id, t) = "dismissed"
                        => UnmatchedStatus(unmatched_tracks', spotify_id, t) # "pending"]_vars

\* task t has been created
Started(t) == t <= Len(sync_tasks)

====
